---- MODULE Spec2Model ----
(***************************************************************************)
(* The Akai MPC 1000 program (.pgm) codec of the mpc1000 package:          *)
(* Sample.py, Pad.py, Program.py over utils.py, and the legacy mpc1k.py.   *)
(*                                                                         *)
(* Buffers are sequences of bytes (0..255).  Python's 0-based indices are  *)
(* kept for pads, samples and table entries (functions over 0..n-1);       *)
(* byte buffers are 1-based sequences read through Slice.                  *)
(* The struct module is modelled with the semantics of CPython 2.7         *)
(* (the code is Python 2: xrange, print statements): a value outside the   *)
(* range of its format code makes struct.pack raise struct.error.          *)
(***************************************************************************)
EXTENDS Integers, Sequences, FiniteSets, TLC

VARIABLES buf, prog, legacy, res, last, nops, heap, insts, who, pad, call

vars == <<buf, prog, legacy, res, last, nops, heap, insts, who, pad, call>>

------------------------------------------------------------------------------
(* Bounds of the model *)

\* The program has 64 pads (Program.py:86); the model checks the first NumPads.
NumPads == 6

\* Number of attribute assignments after a construction.
MaxOps == 1

\* Number of midi_note assignments after a construction (SpecNotes).
MaxNoteOps == 2

\* Number of assignments and serializations on two instances (SpecInstances).
MaxInstanceOps == 2

------------------------------------------------------------------------------
(* Python helpers *)

Min(a, b) == IF a < b THEN a ELSE b

\* data[a:b] for 0 <= a <= b
Slice(data, a, b) == SubSeq(data, a + 1, Min(b, Len(data)))

\* data[a:]
SliceFrom(data, a) == SubSeq(data, a + 1, Len(data))

\* F of the value of x, with x evaluated once, as Python evaluates the right-hand
\* side of an assignment once
Bind(x, F(_)) == CHOOSE y \in {F(v) : v \in {x}} : TRUE

\* setattr on an object modelled as a function from attribute names
SetAttr(obj, name, val) == IF name \in DOMAIN obj THEN [obj EXCEPT ![name] = val] ELSE obj @@ (name :> val)

\* An object with no attributes yet (object.__new__)
EmptyObject == [k \in {} |-> 0]

\* What a name is bound to when the constructor raised
NoObject == [none |-> TRUE]

------------------------------------------------------------------------------
(* struct: little-endian, standard sizes, no alignment ('<').              *)
(* A format string is written as a sequence of <<code, count>> items       *)
(* ('16s' is <<"s", 16>>, '5x' is <<"x", 5>>) and compiled once, as the    *)
(* struct module does, into its size, the offset of every value and, for   *)
(* every byte, the value it belongs to (0 for a pad byte).                 *)

ItemSize(item) == IF item[1] \in {"h", "H"} THEN 2 * item[2] ELSE item[2]

\* Number of values an item packs or unpacks
ItemArity(item) == IF item[1] = "x" THEN 0 ELSE IF item[1] = "s" THEN 1 ELSE item[2]

ElemSize(e) == IF e.code \in {"h", "H"} THEN 2 ELSE e.len

RECURSIVE CalcSizeFrom(_, _)
CalcSizeFrom(items, i) == IF i > Len(items) THEN 0 ELSE ItemSize(items[i]) + CalcSizeFrom(items, i + 1)

ItemElems(item, off) ==
  CASE item[1] = "x" -> <<>>
    [] item[1] = "s" -> <<[code |-> "s", off |-> off, len |-> item[2]]>>
    [] OTHER -> [k \in 1..item[2] |-> [code |-> item[1], off |-> off + (k - 1) * ItemSize(<<item[1], 1>>), len |-> 1]]

RECURSIVE ElemsFrom(_, _, _)
ElemsFrom(items, i, off) ==
  IF i > Len(items) THEN <<>> ELSE ItemElems(items[i], off) \o ElemsFrom(items, i + 1, off + ItemSize(items[i]))

ElemAt(elems, k) ==
  LET c == {i \in 1..Len(elems) : elems[i].off < k /\ k <= elems[i].off + ElemSize(elems[i])}
  IN IF c = {} THEN 0 ELSE CHOOSE i \in c : TRUE

\* The compiled format
Struct(items) ==
  LET elems == ElemsFrom(items, 1, 0)
      size == CalcSizeFrom(items, 1)
  IN [size |-> size, elems |-> elems, at |-> [k \in 1..size |-> ElemAt(elems, k)]]

\* struct.calcsize
CalcSize(fmt) == fmt.size

Signed8(b) == IF b >= 128 THEN b - 256 ELSE b

Signed16(w) == IF w >= 32768 THEN w - 65536 ELSE w

Word(data, off) == data[off + 1] + 256 * data[off + 2]

\* The integer of code read at byte offset off
DecodeAt(code, data, off) ==
  CASE code = "B" -> data[off + 1]
    [] code = "b" -> Signed8(data[off + 1])
    [] code = "H" -> Word(data, off)
    [] code = "h" -> Signed16(Word(data, off))

DecodeElem(e, data) == IF e.code = "s" THEN SubSeq(data, e.off + 1, e.off + e.len) ELSE DecodeAt(e.code, data, e.off)

\* struct.unpack raises struct.error unless the data has exactly the format's size
StructUnpackOk(fmt, data) == Len(data) = CalcSize(fmt)

\* struct.unpack(fmt, data)
StructUnpack(fmt, data) == [i \in 1..Len(fmt.elems) |-> DecodeElem(fmt.elems[i], data)]

CodeRangeLow(code) == CASE code = "B" -> 0 [] code = "b" -> -128 [] code = "H" -> 0 [] code = "h" -> -32768

CodeRangeHigh(code) == CASE code = "B" -> 255 [] code = "b" -> 127 [] code = "H" -> 65535 [] code = "h" -> 32767

\* Whether struct.pack accepts v for the code (a string fits every 's' item)
EncodableAs(code, v) == code = "s" \/ (CodeRangeLow(code) <= v /\ v <= CodeRangeHigh(code))

\* Two's complement of v in w bits
Unsigned(v, w) == IF v < 0 THEN v + 2 ^ w ELSE v

\* Byte j (from 1) of the encoding of v: 's' is truncated or padded with null bytes
EncodeByte(code, v, j) ==
  CASE code = "s" -> IF j <= Len(v) THEN v[j] ELSE 0
    [] code = "B" -> v
    [] code = "b" -> Unsigned(v, 8)
    [] code = "H" -> IF j = 1 THEN v % 256 ELSE (v \div 256) % 256
    [] code = "h" -> IF j = 1 THEN Unsigned(v, 16) % 256 ELSE (Unsigned(v, 16) \div 256) % 256

\* The bytes of one integer
EncodeAs(code, v) == [j \in 1..ItemSize(<<code, 1>>) |-> EncodeByte(code, v, j)]

\* struct.pack raises struct.error when a value does not fit its code
StructPackOk(fmt, vals) ==
  /\ Len(vals) = Len(fmt.elems)
  /\ \A i \in 1..Len(vals) : EncodableAs(fmt.elems[i].code, vals[i])

\* struct.pack(fmt, *vals): pad bytes are null
StructPack(fmt, vals) ==
  [k \in 1..fmt.size |->
     IF fmt.at[k] = 0 THEN 0
     ELSE EncodeByte(fmt.elems[fmt.at[k]].code, vals[fmt.at[k]], k - fmt.elems[fmt.at[k]].off)]

------------------------------------------------------------------------------
(* utils.py: validators, property setters, class_factory *)

\* The outcome of an operation that may raise
Raised(kind, obj) == [status |-> kind, obj |-> obj]

Returned(obj) == [status |-> "ok", obj |-> obj]

PassValidator == [kind |-> "pass", lower |-> 0, upper |-> 0]

IntValidator(lower, upper) == [kind |-> "int", lower |-> lower, upper |-> upper]

NameValidator == [kind |-> "name", lower |-> 0, upper |-> 0]

\* Mutants of int_in_range_validator: one more than the upper bound accepted; the lower bound not checked
IntInRangeValidatorLenient(lower, upper, value) == ~(value < lower \/ value > upper + 1)

IntInRangeValidatorUpperOnly(lower, upper, value) == ~(value > upper)

\* int_in_range_validator(lower, upper)(value) does not raise
IntInRangeValidator(lower, upper, value) == ~(value < lower \/ value > upper)

\* The character codes of valid_name_characters
ValidNameCharacters == (97..122) \cup (65..90) \cup (48..57) \cup {33, 35, 36, 37, 38, 39, 40, 41, 45, 64, 95, 123, 125, 32, 0}

\* Mutant of sample_name_validator: a name of 17 characters is not too long
SampleNameValidatorLenient(value) == ~(Len(value) > 17) /\ \A k \in 1..Len(value) : value[k] \in ValidNameCharacters

\* sample_name_validator(value) does not raise
SampleNameValidator(value) == ~(Len(value) > 16) /\ \A k \in 1..Len(value) : value[k] \in ValidNameCharacters

\* validator(value) does not raise (every validator returns the value it accepts)
Validates(validator, value) ==
  CASE validator.kind = "pass" -> TRUE
    [] validator.kind = "int" -> IntInRangeValidator(validator.lower, validator.upper, value)
    [] validator.kind = "name" -> SampleNameValidator(value)

\* Mutant of setter_factory: the value is stored before it is validated
SetterFactoryStoreFirst(validator, self, name, val) ==
  IF Validates(validator, val) THEN Returned(SetAttr(self, name, val)) ELSE Raised("ValueError", SetAttr(self, name, val))

\* The property setter made by setter_factory(name, validator)
SetterFactory(validator, self, name, val) ==
  IF Validates(validator, val) THEN Returned(SetAttr(self, name, val)) ELSE Raised("ValueError", self)

\* The loop of class_factory.unpack: setattr for each unpacked value, in order
RECURSIVE SetUnpacked(_, _, _, _)
SetUnpacked(self, attrs, vals, i) ==
  IF i > Len(vals) THEN Returned(self)
  ELSE Bind(SetterFactory(attrs[i][2], self, attrs[i][1], vals[i]),
            LAMBDA r : IF r.status = "ok" THEN SetUnpacked(r.obj, attrs, vals, i + 1) ELSE r)

\* Mutant of class_factory.unpack: short data is padded with null bytes
ClassUnpackPadded(format, attrs, self, data) ==
  LET d == Slice(data, 0, CalcSize(format))
  IN SetUnpacked(self, attrs, StructUnpack(format, [k \in 1..CalcSize(format) |-> IF k <= Len(d) THEN d[k] ELSE 0]), 1)

\* class_factory.unpack(self, data_str)
ClassUnpack(format, attrs, self, data) ==
  LET d == Slice(data, 0, CalcSize(format))
  IN IF ~StructUnpackOk(format, d) THEN Raised("struct.error", self)
     ELSE Bind(StructUnpack(format, d), LAMBDA unpacked_data : SetUnpacked(self, attrs, unpacked_data, 1))

AttrValues(attrs, self) == [i \in 1..Len(attrs) |-> self[attrs[i][1]]]

\* class_factory.pack(self) does not raise
ClassPackOk(format, attrs, self) == StructPackOk(format, AttrValues(attrs, self))

\* class_factory.pack(self)
ClassPack(format, attrs, self) == StructPack(format, AttrValues(attrs, self))

\* Python lists, indexed from 0
EmptyList == [k \in {} |-> 0]

ListLen(l) == Cardinality(DOMAIN l)

ListAppend(l, x) == [k \in 0..ListLen(l) |-> IF k < ListLen(l) THEN l[k] ELSE x]

------------------------------------------------------------------------------
(* Sample.py *)

SampleFormat == Struct(<< <<"s", 16>>, <<"x", 1>>, <<"B", 1>>, <<"B", 1>>, <<"B", 1>>, <<"h", 1>>, <<"B", 1>>, <<"x", 1>> >>)

\* Mutant of the Sample attributes: level may be as high as 300
SampleFormatAttrsWideLevel ==
  << <<"sample_name", NameValidator>>,
     <<"level", IntValidator(0, 300)>>,
     <<"range_upper", IntValidator(0, 127)>>,
     <<"range_lower", IntValidator(0, 127)>>,
     <<"tuning", IntValidator(-3600, 3600)>>,
     <<"play_mode", IntValidator(0, 1)>> >>

SampleFormatAttrs ==
  << <<"sample_name", NameValidator>>,
     <<"level", IntValidator(0, 100)>>,
     <<"range_upper", IntValidator(0, 127)>>,
     <<"range_lower", IntValidator(0, 127)>>,
     <<"tuning", IntValidator(-3600, 3600)>>,
     <<"play_mode", IntValidator(0, 1)>> >>

SampleSize == CalcSize(SampleFormat)

\* Sample(data): __init__ is class_factory.unpack
SampleInit(data) == ClassUnpack(SampleFormat, SampleFormatAttrs, EmptyObject, data)

\* Mutant of Sample.data: the null bytes of the name are written as spaces
SampleDataSpacePadded(s) ==
  ClassPack(SampleFormat, SampleFormatAttrs, [s EXCEPT !.sample_name = [k \in 1..Len(@) |-> IF @[k] = 0 THEN 32 ELSE @[k]]])

\* Sample.data
SampleData(s) == ClassPack(SampleFormat, SampleFormatAttrs, s)

SampleDataOk(s) == ClassPackOk(SampleFormat, SampleFormatAttrs, s)

------------------------------------------------------------------------------
(* Pad.py *)

PadFormat ==
  Struct(<< <<"x", 2>>, <<"b", 1>>, <<"b", 1>>, <<"x", 1>>, <<"B", 1>>, <<"B", 1>>, <<"B", 1>>, <<"B", 1>>,
     <<"x", 2>>, <<"B", 1>>, <<"x", 5>>, <<"b", 1>>, <<"B", 1>>, <<"B", 1>>, <<"x", 4>>, <<"B", 1>>,
     <<"B", 1>>, <<"B", 1>>, <<"B", 1>>, <<"x", 4>>, <<"B", 1>>, <<"x", 14>>, <<"B", 1>>, <<"B", 1>>,
     <<"B", 1>>, <<"B", 1>>, <<"B", 1>>, <<"B", 1>>, <<"x", 15>> >>)

PadFormatAttrs ==
  << <<"voice_overlap", IntValidator(0, 1)>>,
     <<"mute_group", IntValidator(0, 32)>>,
     <<"unknown", IntValidator(0, 255)>>,
     <<"attack", IntValidator(0, 100)>>,
     <<"decay", IntValidator(0, 100)>>,
     <<"decay_mode", IntValidator(0, 1)>>,
     <<"vel_to_level", IntValidator(0, 100)>>,
     <<"filter_1_type", IntValidator(0, 3)>>,
     <<"filter_1_freq", IntValidator(0, 100)>>,
     <<"filter_1_res", IntValidator(0, 100)>>,
     <<"filter_1_vel_to_freq", IntValidator(0, 100)>>,
     <<"filter_2_type", IntValidator(0, 4)>>,
     <<"filter_2_freq", IntValidator(0, 100)>>,
     <<"filter_2_res", IntValidator(0, 100)>>,
     <<"filter_2_vel_to_freq", IntValidator(0, 100)>>,
     <<"mixer_level", IntValidator(0, 100)>>,
     <<"mixer_pan", IntValidator(0, 100)>>,
     <<"output", IntValidator(0, 2)>>,
     <<"fx_send", IntValidator(0, 2)>>,
     <<"fx_send_level", IntValidator(0, 100)>>,
     <<"filter_attenuation", IntValidator(0, 2)>> >>

PadAdditionalAttrs == << <<"midi_note", IntValidator(0, 127)>>, <<"samples", PassValidator>> >>

\* Pad.size
PadSize == CalcSize(PadFormat) + 4 * SampleSize

\* The loop of pad_init: four Samples, each read from data[offset:]
RECURSIVE PadInitSamples(_, _, _, _)
PadInitSamples(self, data, i, offset) ==
  IF i = 4 THEN Returned(self)
  ELSE Bind(SampleInit(SliceFrom(data, offset)),
            LAMBDA s :
              IF s.status # "ok" THEN Raised(s.status, self)
              ELSE Bind(SetAttr(self, "samples", ListAppend(self.samples, s.obj)),
                        LAMBDA appended : PadInitSamples(appended, data, i + 1, offset + SampleSize)))

\* Mutant of pad_init: the scalar record is read from the end of data
PadInitFromEnd(data) ==
  Bind(PadInitSamples(SetAttr(EmptyObject, "samples", EmptyList), data, 0, 0),
       LAMBDA r : IF r.status # "ok" THEN r ELSE ClassUnpack(PadFormat, PadFormatAttrs, r.obj, SliceFrom(data, Len(data) - CalcSize(PadFormat))))

\* pad_init(self, data)
PadInit(data) ==
  Bind(PadInitSamples(SetAttr(EmptyObject, "samples", EmptyList), data, 0, 0),
       LAMBDA r : IF r.status # "ok" THEN r ELSE ClassUnpack(PadFormat, PadFormatAttrs, r.obj, SliceFrom(data, 4 * SampleSize)))

RECURSIVE JoinSampleData(_, _)
JoinSampleData(samples, i) ==
  IF i = ListLen(samples) THEN <<>> ELSE SampleData(samples[i]) \o JoinSampleData(samples, i + 1)

\* Mutant of pad_data: midi_note is written in the first pad byte of the Pad's record
PadDataWithNote(p) ==
  JoinSampleData(p.samples, 0) \o [ClassPack(PadFormat, PadFormatAttrs, p) EXCEPT ![1] = p.midi_note]

\* pad_data(self): the Pad's data property
PadData(p) == JoinSampleData(p.samples, 0) \o ClassPack(PadFormat, PadFormatAttrs, p)

PadDataOk(p) ==
  /\ \A i \in DOMAIN p.samples : SampleDataOk(p.samples[i])
  /\ ClassPackOk(PadFormat, PadFormatAttrs, p)

------------------------------------------------------------------------------
(* Program.py *)

\* Entries of the note -> pad table ('<128B', [64,] * 128)
NumNotes == 128

\* The "no pad" entry of the note -> pad table
NoPad == 64

ProgramFormat ==
  Struct(<< <<"B", 1>>, <<"B", 1>>, <<"B", 1>>, <<"B", 1>>,
     <<"b", 1>>, <<"b", 1>>, <<"b", 1>>, <<"b", 1>>, <<"B", 1>>, <<"B", 1>>, <<"B", 1>>, <<"B", 1>>, <<"B", 1>>, <<"B", 1>>, <<"B", 1>>, <<"B", 1>>, <<"B", 1>>,
     <<"b", 1>>, <<"b", 1>>, <<"b", 1>>, <<"b", 1>>, <<"B", 1>>, <<"B", 1>>, <<"B", 1>>, <<"B", 1>>, <<"B", 1>>, <<"B", 1>>, <<"x", 17>> >>)

ProgramFormatAttrs ==
  << <<"midi_program_change", IntValidator(0, 128)>>,
     <<"slider_1_pad", IntValidator(0, 63)>>,
     <<"slider_1_unknown", IntValidator(0, 255)>>,
     <<"slider_1_parameter", IntValidator(0, 4)>>,
     <<"slider_1_tune_low", IntValidator(-120, 120)>>,
     <<"slider_1_tune_high", IntValidator(-120, 120)>>,
     <<"slider_1_filter_low", IntValidator(-50, 50)>>,
     <<"slider_1_filter_high", IntValidator(-50, 50)>>,
     <<"slider_1_layer_low", IntValidator(0, 127)>>,
     <<"slider_1_layer_high", IntValidator(0, 127)>>,
     <<"slider_1_attack_low", IntValidator(0, 100)>>,
     <<"slider_1_attack_high", IntValidator(0, 100)>>,
     <<"slider_1_decay_low", IntValidator(0, 100)>>,
     <<"slider_1_decay_high", IntValidator(0, 100)>>,
     <<"slider_2_pad", IntValidator(0, 63)>>,
     <<"slider_2_unknown", IntValidator(0, 255)>>,
     <<"slider_2_parameter", IntValidator(0, 4)>>,
     <<"slider_2_tune_low", IntValidator(-120, 120)>>,
     <<"slider_2_tune_high", IntValidator(-120, 120)>>,
     <<"slider_2_filter_low", IntValidator(-50, 50)>>,
     <<"slider_2_filter_high", IntValidator(-50, 50)>>,
     <<"slider_2_layer_low", IntValidator(0, 127)>>,
     <<"slider_2_layer_high", IntValidator(0, 127)>>,
     <<"slider_2_attack_low", IntValidator(0, 100)>>,
     <<"slider_2_attack_high", IntValidator(0, 100)>>,
     <<"slider_2_decay_low", IntValidator(0, 100)>>,
     <<"slider_2_decay_high", IntValidator(0, 100)>> >>

\* addl_formats; 'pad_midi_note' has one byte per pad
HeaderFormat == Struct(<< <<"H", 1>>, <<"x", 2>>, <<"s", 16>>, <<"x", 4>> >>)

PadMidiNoteFormat == Struct(<< <<"B", NumPads>> >>)

MidiNotePadFormat == Struct(<< <<"B", NumNotes>> >>)

\* The loop of program_init that constructs the Pads
RECURSIVE ProgramInitPads(_, _, _, _)
ProgramInitPads(self, data, i, offset) ==
  IF i = NumPads THEN Returned(self)
  ELSE Bind(PadInit(Slice(data, offset, offset + PadSize)),
            LAMBDA p :
              IF p.status # "ok" THEN Raised(p.status, self)
              ELSE Bind(SetAttr(self, "pads", ListAppend(self.pads, p.obj)),
                        LAMBDA appended : ProgramInitPads(appended, data, i + 1, offset + PadSize)))

\* Mutant of that loop: the note is stored without going through the setter
RECURSIVE ProgramInitNotesUnchecked(_, _, _)
ProgramInitNotesUnchecked(self, notes, i) ==
  IF i = Len(notes) THEN Returned(self)
  ELSE Bind([self EXCEPT !.pads[i] = SetAttr(self.pads[i], "midi_note", notes[i + 1])],
            LAMBDA assigned : ProgramInitNotesUnchecked(assigned, notes, i + 1))

\* The loop of program_init that assigns each Pad's midi_note
RECURSIVE ProgramInitNotes(_, _, _)
ProgramInitNotes(self, notes, i) ==
  IF i = Len(notes) THEN Returned(self)
  ELSE Bind(SetterFactory(PadAdditionalAttrs[1][2], self.pads[i], "midi_note", notes[i + 1]),
            LAMBDA r :
              IF r.status # "ok" THEN Raised(r.status, self)
              ELSE Bind([self EXCEPT !.pads[i] = r.obj], LAMBDA assigned : ProgramInitNotes(assigned, notes, i + 1)))

PadsOffset == CalcSize(HeaderFormat)

PadMidiNoteOffset == PadsOffset + NumPads * PadSize

MidiNotePadOffset == PadMidiNoteOffset + CalcSize(PadMidiNoteFormat)

GlobalOffset == MidiNotePadOffset + CalcSize(MidiNotePadFormat)

\* The number of bytes program_init reads
ProgramSize == GlobalOffset + CalcSize(ProgramFormat)

\* Mutant of program_init: the loaded note -> pad table is checked, an entry
\* greater than "no pad" raises
ProgramInitTablesChecked(self, data) ==
  LET notes == Slice(data, PadMidiNoteOffset, MidiNotePadOffset)
      table == Slice(data, MidiNotePadOffset, GlobalOffset)
  IN IF ~StructUnpackOk(PadMidiNoteFormat, notes) THEN Raised("struct.error", NoObject)
     ELSE Bind(ProgramInitNotes(self, StructUnpack(PadMidiNoteFormat, notes), 0),
               LAMBDA r2 :
                 IF r2.status # "ok" THEN Raised(r2.status, NoObject)
                 ELSE IF ~StructUnpackOk(MidiNotePadFormat, table) THEN Raised("struct.error", NoObject)
                 ELSE IF \E k \in 1..Len(table) : table[k] > NoPad THEN Raised("ValueError", NoObject)
                 ELSE Bind(ClassUnpack(ProgramFormat, ProgramFormatAttrs, r2.obj, SliceFrom(data, GlobalOffset)),
                           LAMBDA r3 : IF r3.status # "ok" THEN Raised(r3.status, NoObject) ELSE r3))

\* program_init(self, data) from the pad -> note table on, with the Pads made
ProgramInitTables(self, data) ==
  LET notes == Slice(data, PadMidiNoteOffset, MidiNotePadOffset)
  IN IF ~StructUnpackOk(PadMidiNoteFormat, notes) THEN Raised("struct.error", NoObject)
     ELSE Bind(ProgramInitNotes(self, StructUnpack(PadMidiNoteFormat, notes), 0),
               LAMBDA r2 :
                 IF r2.status # "ok" THEN Raised(r2.status, NoObject)
                 ELSE IF ~StructUnpackOk(MidiNotePadFormat, Slice(data, MidiNotePadOffset, GlobalOffset)) THEN Raised("struct.error", NoObject)
                 ELSE Bind(ClassUnpack(ProgramFormat, ProgramFormatAttrs, r2.obj, SliceFrom(data, GlobalOffset)),
                           LAMBDA r3 : IF r3.status # "ok" THEN Raised(r3.status, NoObject) ELSE r3))

\* program_init(self, data) for a supplied buffer; when it raises there is no object
ProgramInit(data) ==
  LET header == Slice(data, 0, PadsOffset)
      h == StructUnpack(HeaderFormat, header)
  IN IF ~StructUnpackOk(HeaderFormat, header) THEN Raised("struct.error", NoObject)
     ELSE Bind(ProgramInitPads([file_size |-> h[1], file_type |-> h[2], pads |-> EmptyList], data, 0, PadsOffset),
               LAMBDA r1 : IF r1.status # "ok" THEN Raised(r1.status, NoObject) ELSE ProgramInitTables(r1.obj, data))

\* Mutant of program_pad_midi_notes: every entry is the first pad's note
ProgramPadMidiNotesFirst(self) == [i \in DOMAIN self.pads |-> self.pads[0].midi_note]

\* program_pad_midi_notes(self)
ProgramPadMidiNotes(self) == [i \in DOMAIN self.pads |-> self.pads[i].midi_note]

\* Mutant of the loop of program_midi_note_pads: an entry already written is kept
RECURSIVE MidiNotePadsFromFirst(_, _, _)
MidiNotePadsFromFirst(mnpl, pads, i) ==
  IF i = ListLen(pads) THEN mnpl
  ELSE MidiNotePadsFromFirst(IF mnpl[pads[i].midi_note] = NoPad THEN [mnpl EXCEPT ![pads[i].midi_note] = i] ELSE mnpl, pads, i + 1)

\* The loop of program_midi_note_pads: mnpl[p.midi_note] = i, in pad order
RECURSIVE MidiNotePadsFrom(_, _, _)
MidiNotePadsFrom(mnpl, pads, i) ==
  IF i = ListLen(pads) THEN mnpl
  ELSE MidiNotePadsFrom([mnpl EXCEPT ![pads[i].midi_note] = i], pads, i + 1)

\* Mutant of program_midi_note_pads: the table starts filled with pad 0
ProgramMidiNotePadsZeroFilled(self) == MidiNotePadsFrom([n \in 0..(NumNotes - 1) |-> 0], self.pads, 0)

\* program_midi_note_pads(self)
ProgramMidiNotePads(self) == MidiNotePadsFrom([n \in 0..(NumNotes - 1) |-> NoPad], self.pads, 0)

ListToSeq(l) == [k \in 1..ListLen(l) |-> l[k - 1]]

RECURSIVE JoinPadData(_, _)
JoinPadData(pads, i) ==
  IF i = ListLen(pads) THEN <<>> ELSE PadData(pads[i]) \o JoinPadData(pads, i + 1)

\* program_data(self) does not raise
ProgramDataOk(self) ==
  /\ StructPackOk(HeaderFormat, <<self.file_size, self.file_type>>)
  /\ StructPackOk(PadMidiNoteFormat, ListToSeq(ProgramPadMidiNotes(self)))
  /\ StructPackOk(MidiNotePadFormat, ListToSeq(ProgramMidiNotePads(self)))
  /\ ClassPackOk(ProgramFormat, ProgramFormatAttrs, self)
  /\ \A i \in DOMAIN self.pads : PadDataOk(self.pads[i])

\* Mutant of program_data: the note -> pad table written has "no pad" in every
\* entry, it is not the regenerated one
ProgramDataStaleTable(self) ==
  StructPack(HeaderFormat, <<self.file_size, self.file_type>>)
    \o JoinPadData(self.pads, 0)
    \o StructPack(PadMidiNoteFormat, ListToSeq(ProgramPadMidiNotes(self)))
    \o [k \in 1..NumNotes |-> NoPad]
    \o ClassPack(ProgramFormat, ProgramFormatAttrs, self)

\* Mutant of program_data: the two tables are written before the Pads
ProgramDataTablesFirst(self) ==
  StructPack(HeaderFormat, <<self.file_size, self.file_type>>)
    \o StructPack(PadMidiNoteFormat, ListToSeq(ProgramPadMidiNotes(self)))
    \o StructPack(MidiNotePadFormat, ListToSeq(ProgramMidiNotePads(self)))
    \o JoinPadData(self.pads, 0)
    \o ClassPack(ProgramFormat, ProgramFormatAttrs, self)

\* program_data(self): the Program's data property
ProgramData(self) ==
  StructPack(HeaderFormat, <<self.file_size, self.file_type>>)
    \o JoinPadData(self.pads, 0)
    \o StructPack(PadMidiNoteFormat, ListToSeq(ProgramPadMidiNotes(self)))
    \o StructPack(MidiNotePadFormat, ListToSeq(ProgramMidiNotePads(self)))
    \o ClassPack(ProgramFormat, ProgramFormatAttrs, self)

------------------------------------------------------------------------------
(* utils.py: DEFAULT_PGM_DATA, the decompressed default program image.     *)
(* Its 64 Pad records are identical; the model's image keeps the header,   *)
(* the first NumPads Pad records, their entries of the pad -> note table,  *)
(* the note -> pad table with the entries of the pads left out set to      *)
(* "no pad", and the global record.                                        *)

DefaultHeaderData ==
  << 4, 42, 0, 0, 77, 80, 67, 49, 48, 48, 48, 32, 80, 71, 77, 32, 49, 46, 48, 48, 0, 0, 0, 0 >>

DefaultSampleData ==
  << 0, 0, 0, 0, 0, 0, 0, 0, 0, 0, 0, 0, 0, 0, 0, 0, 0, 70, 0, 127, 0, 0, 0, 0 >>

DefaultPadRecordData ==
  << 0, 0, 0, 0, 0, 1, 0, 5, 0, 0, 0, 100, 0, 0, 0, 0, 0, 0, 100, 0, 0, 0, 0, 0, 0, 0, 100, 0, 0, 0, 0, 0,
     0, 0, 0, 0, 0, 0, 0, 0, 0, 0, 0, 0, 0, 0, 0, 100, 50, 0, 0, 33, 0, 0, 0, 0, 0, 0, 0, 0, 0, 0, 0, 0,
     0, 0, 0, 0 >>

DefaultPadMidiNoteData ==
  << 37, 36, 42, 82, 40, 38, 46, 44, 48, 47, 45, 43, 49, 55, 51, 53, 54, 69, 81, 80, 65, 66, 76, 77, 56, 62, 63, 64, 73, 74, 71, 39,
     52, 57, 58, 59, 60, 61, 67, 68, 70, 72, 75, 78, 79, 35, 41, 50, 83, 84, 85, 86, 87, 88, 89, 90, 91, 92, 93, 94, 95, 96, 97, 98 >>

DefaultMidiNotePadData ==
  << 64, 64, 64, 64, 64, 64, 64, 64, 64, 64, 64, 64, 64, 64, 64, 64, 64, 64, 64, 64, 64, 64, 64, 64, 64, 64, 64, 64, 64, 64, 64, 64,
     64, 64, 64, 45, 1, 0, 5, 31, 4, 46, 2, 11, 7, 10, 6, 9, 8, 12, 47, 14, 32, 15, 16, 13, 24, 33, 34, 35, 36, 37, 25, 26,
     27, 20, 21, 38, 39, 17, 40, 30, 41, 28, 29, 42, 22, 23, 43, 44, 19, 18, 3, 48, 49, 50, 51, 52, 53, 54, 55, 56, 57, 58, 59, 60,
     61, 62, 63, 64, 64, 64, 64, 64, 64, 64, 64, 64, 64, 64, 64, 64, 64, 64, 64, 64, 64, 64, 64, 64, 64, 64, 64, 64, 64, 64, 64, 64 >>

DefaultGlobalData ==
  << 0, 0, 1, 0, 136, 120, 206, 50, 0, 127, 0, 100, 0, 100, 0, 1, 1, 136, 120, 206, 50, 0, 127, 0, 100, 0, 100, 0, 0, 0, 0, 0,
     0, 0, 0, 0, 0, 0, 0, 0, 0, 0, 0, 0 >>

DefaultPadData == DefaultSampleData \o DefaultSampleData \o DefaultSampleData \o DefaultSampleData \o DefaultPadRecordData

RECURSIVE Repeat(_, _)
Repeat(data, n) == IF n = 0 THEN <<>> ELSE data \o Repeat(data, n - 1)

DEFAULT_PGM_DATA ==
  DefaultHeaderData
    \o Repeat(DefaultPadData, NumPads)
    \o SubSeq(DefaultPadMidiNoteData, 1, NumPads)
    \o [k \in 1..NumNotes |-> IF DefaultMidiNotePadData[k] < NumPads THEN DefaultMidiNotePadData[k] ELSE NoPad]
    \o DefaultGlobalData

\* Mutant of program_init without data: the missing buffer is taken as empty
ProgramInitNoDataEmpty == ProgramInit(<<>>)

\* program_init(self): data is None, and is replaced by DEFAULT_PGM_DATA
ProgramInitNoData == ProgramInit(DEFAULT_PGM_DATA)

------------------------------------------------------------------------------
(* Where the formats put each value: used to build input buffers and to    *)
(* state what a buffer holds, independently of the constructors.           *)

\* The values of a format, with their names, validators and offsets
FormatFields(fmt, attrs) ==
  {[name |-> attrs[i][1], off |-> fmt.elems[i].off, code |-> fmt.elems[i].code, validator |-> attrs[i][2]] : i \in 1..Len(attrs)}

Pads == 0..(NumPads - 1)

Samples == 0..3

\* A value of the buffer: where it is, and where the record unpacked with it ends
Located(f, kind, p, s, base, size) ==
  [kind |-> kind, pad |-> p, sample |-> s, name |-> f.name, off |-> base + f.off, code |-> f.code, validator |-> f.validator, rec_end |-> base + size]

\* Every validated value of a Program buffer, with its absolute offset
BufferFields ==
  {Located(f, "sample", p, s, PadsOffset + p * PadSize + s * SampleSize, SampleSize) : f \in FormatFields(SampleFormat, SampleFormatAttrs), p \in Pads, s \in Samples}
    \cup {Located(f, "pad", p, 0, PadsOffset + p * PadSize + 4 * SampleSize, CalcSize(PadFormat)) : f \in FormatFields(PadFormat, PadFormatAttrs), p \in Pads}
    \cup {Located([name |-> "midi_note", off |-> p, code |-> "B", validator |-> PadAdditionalAttrs[1][2]], "pad", p, 0, PadMidiNoteOffset, CalcSize(PadMidiNoteFormat)) : p \in Pads}
    \cup {Located(f, "program", 0, 0, GlobalOffset, CalcSize(ProgramFormat)) : f \in FormatFields(ProgramFormat, ProgramFormatAttrs)}

\* The integer-bounded ones
BoundedFields == {f \in BufferFields : f.validator.kind = "int"}

\* The value a buffer holds for a bounded field whose record lies inside it
FieldValue(data, f) == DecodeAt(f.code, data, f.off)

\* The field's record lies inside the buffer and the value stored is outside the field's bound
Outside(data, f) ==
  /\ f.rec_end <= Len(data)
  /\ (FieldValue(data, f) < f.validator.lower \/ FieldValue(data, f) > f.validator.upper)

\* The Sample's record lies inside the buffer and its name is too long or has a character that is not allowed
BadName(data, f) ==
  /\ f.rec_end <= Len(data)
  /\ \E k \in 1..16 : data[f.off + k] \notin ValidNameCharacters

\* Some value of a complete record of the buffer is not valid
HoldsInvalid(data, fields) ==
  \E f \in fields : IF f.validator.kind = "int" THEN Outside(data, f) ELSE BadName(data, f)

\* The fields of the Pad record p (its four Samples and its scalar record)
PadRecordFieldsTable == [p \in Pads |-> {f \in BufferFields : f.pad = p /\ f.kind \in {"pad", "sample"} /\ f.name # "midi_note"}]

PadRecordFields(p) == PadRecordFieldsTable[p]

SampleRecordFieldsTable == [p \in Pads |-> [s \in Samples |-> {f \in BufferFields : f.pad = p /\ f.kind = "sample" /\ f.sample = s}]]

SampleRecordFields(p, s) == SampleRecordFieldsTable[p][s]

\* The slices program_init and pad_init hand to Pad and to Sample
PadSlice(data, p) == Slice(data, PadsOffset + p * PadSize, PadsOffset + (p + 1) * PadSize)

SampleSlice(data, p, s) == SliceFrom(PadSlice(data, p), s * SampleSize)

\* data with the bytes at offset off replaced
Poke(data, off, bytes) == [k \in 1..Len(data) |-> IF k > off /\ k <= off + Len(bytes) THEN bytes[k - off] ELSE data[k]]

------------------------------------------------------------------------------
(* Input buffers *)

\* A well-formed image whose slider pairs are narrower than their ranges:
\* slider 1 tune is (0, 50), every other pair (20, 30)
NarrowGlobalData ==
  << 5, 0, 1, 0, 0, 50, 20, 30, 20, 30, 20, 30, 20, 30,
     1, 1, 1, 20, 30, 20, 30, 20, 30, 20, 30, 20, 30,
     0, 0, 0, 0, 0, 0, 0, 0, 0, 0, 0, 0, 0, 0, 0, 0, 0 >>

NarrowImage == Poke(DEFAULT_PGM_DATA, GlobalOffset, NarrowGlobalData)

\* Buffers of the programs that are then mutated
MutationBuffers == {DEFAULT_PGM_DATA, NarrowImage}

\* The values tried for an integer field with bound [lower, upper]
BoundaryVals(lower, upper) == {lower - 1, lower, upper, upper + 1}

\* Byte values poked anywhere: 42 is '*', not a valid name character
PokeBytes == {0, 1, 42, 65, 255}

\* The pads whose bytes are poked, and whose attributes are assigned
EdgePads == {0, NumPads - 1}

PokeOffsets ==
  (0..(PadsOffset - 1))
    \cup UNION {(PadsOffset + p * PadSize)..(PadsOffset + (p + 1) * PadSize - 1) : p \in EdgePads}
    \cup (PadMidiNoteOffset..(ProgramSize - 1))

BytePokes == {Poke(DEFAULT_PGM_DATA, off, <<b>>) : off \in PokeOffsets, b \in PokeBytes}

\* A bounded field set to a value at or next to its bound, or at the end of its code's range
FieldPokeVals(f) ==
  {v \in BoundaryVals(f.validator.lower, f.validator.upper) \cup {CodeRangeLow(f.code), CodeRangeHigh(f.code)} : EncodableAs(f.code, v)}

FieldPokes ==
  UNION {{Poke(DEFAULT_PGM_DATA, f.off, EncodeAs(f.code, v)) : v \in FieldPokeVals(f)} : f \in {g \in BoundedFields : g.pad \in EdgePads}}

\* The default image cut short, and with bytes appended
Truncations == {SubSeq(DEFAULT_PGM_DATA, 1, n) : n \in 0..(ProgramSize - 1)}

Extensions == {DEFAULT_PGM_DATA \o <<255>>, DEFAULT_PGM_DATA \o DefaultGlobalData}

\* Short buffers holding an out-of-range value: sample 0 of pad 0 with level 255
BadLevel == Poke(DEFAULT_PGM_DATA, PadsOffset + 17, <<255>>)

BadTruncations == {SubSeq(BadLevel, 1, n) : n \in 0..(PadsOffset + PadSize)} \cup {SubSeq(BadLevel, 1, ProgramSize - 1)}

ParseBuffers == BytePokes \cup FieldPokes \cup Truncations \cup Extensions \cup BadTruncations \cup {NarrowImage}

------------------------------------------------------------------------------
(* mpc1k.py: the single-module classes.  Sample is made by the module's own  *)
(* class_factory; Pad and Program are written out, with a property setter  *)
(* per attribute.                                                           *)

\* int_in_range(value, lower, upper) does not raise
IntInRange(value, lower, upper) == ~(value < lower \/ value > upper)

\* A setter of the form self._name = int_in_range(value, lower, upper)
Mpc1kSetter(self, name, lower, upper, value) ==
  IF IntInRange(value, lower, upper) THEN Returned(SetAttr(self, name, value)) ELSE Raised("ValueError", self)

\* The attrs of mpc1k.Sample: the sample's name is the attribute 'name'
Mpc1kSampleAttrs ==
  << <<"name", NameValidator>>,
     <<"level", IntValidator(0, 100)>>,
     <<"range_upper", IntValidator(0, 127)>>,
     <<"range_lower", IntValidator(0, 127)>>,
     <<"tuning", IntValidator(-3600, 3600)>>,
     <<"play_mode", IntValidator(0, 1)>> >>

\* mpc1k.Sample(data_str): the init made by mpc1k.class_factory
Mpc1kSampleInit(data) ==
  LET d == Slice(data, 0, SampleSize)
  IN IF ~StructUnpackOk(SampleFormat, d) THEN Raised("struct.error", EmptyObject)
     ELSE Bind(StructUnpack(SampleFormat, d), LAMBDA unpacked_data : SetUnpacked(EmptyObject, Mpc1kSampleAttrs, unpacked_data, 1))

\* The loop of Pad.parse_data that constructs the four Samples
RECURSIVE Mpc1kPadSamples(_, _, _, _)
Mpc1kPadSamples(self, data, i, start) ==
  IF i = 4 THEN Returned(self)
  ELSE Bind(Mpc1kSampleInit(Slice(data, start, start + SampleSize)),
            LAMBDA s :
              IF s.status # "ok" THEN Raised(s.status, self)
              ELSE Bind(SetAttr(self, "sample_list", ListAppend(self.sample_list, s.obj)),
                        LAMBDA appended : Mpc1kPadSamples(appended, data, i + 1, start + SampleSize)))

\* The assignments of Pad.parse_data, each through the attribute's setter; the
\* setters of mpc1k.Pad have the bounds of pad_format_attrs, in its order
RECURSIVE Mpc1kPadAssign(_, _, _)
Mpc1kPadAssign(self, vals, i) ==
  IF i > Len(vals) THEN Returned(self)
  ELSE Bind(Mpc1kSetter(self, PadFormatAttrs[i][1], PadFormatAttrs[i][2].lower, PadFormatAttrs[i][2].upper, vals[i]),
            LAMBDA r : IF r.status = "ok" THEN Mpc1kPadAssign(r.obj, vals, i + 1) ELSE r)

\* mpc1k.Pad(data_str): an empty data_str is replaced by DEFAULT_PAD_DATA
Mpc1kPadInit(data) ==
  Bind(IF Len(data) = 0 THEN DefaultPadData ELSE data,
       LAMBDA data_str :
         Bind(Mpc1kPadSamples(SetAttr(EmptyObject, "sample_list", EmptyList), data_str, 0, 0),
              LAMBDA r :
                IF r.status # "ok" THEN r
                ELSE IF ~StructUnpackOk(PadFormat, Slice(data_str, 4 * SampleSize, PadSize)) THEN Raised("struct.error", r.obj)
                ELSE Bind(StructUnpack(PadFormat, Slice(data_str, 4 * SampleSize, PadSize)),
                          LAMBDA unpacked_data : Mpc1kPadAssign(r.obj, unpacked_data, 1))))

\* The attributes of mpc1k.Program that Program.load assigns, in its order:
\* name, lower, upper, and for a slider bound which bound of the pair it is and
\* the name of the opposite bound
Mpc1kProgramAttrs ==
  << <<"midi_program_change", 0, 128, "plain", "">>,
     <<"slider_1_pad", 0, 63, "plain", "">>,
     <<"slider_1_unknown", 0, 255, "plain", "">>,
     <<"slider_1_parameter", 0, 4, "plain", "">>,
     <<"slider_1_tune_low", -120, 120, "low", "slider_1_tune_high">>,
     <<"slider_1_tune_high", -120, 120, "high", "slider_1_tune_low">>,
     <<"slider_1_filter_low", -50, 50, "low", "slider_1_filter_high">>,
     <<"slider_1_filter_high", -50, 50, "high", "slider_1_filter_low">>,
     <<"slider_1_layer_low", 0, 127, "low", "slider_1_layer_high">>,
     <<"slider_1_layer_high", 0, 127, "high", "slider_1_layer_low">>,
     <<"slider_1_attack_low", 0, 100, "low", "slider_1_attack_high">>,
     <<"slider_1_attack_high", 0, 100, "high", "slider_1_attack_low">>,
     <<"slider_1_decay_low", 0, 100, "low", "slider_1_decay_high">>,
     <<"slider_1_decay_high", 0, 100, "high", "slider_1_decay_low">>,
     <<"slider_2_pad", 0, 63, "plain", "">>,
     <<"slider_2_unknown", 0, 255, "plain", "">>,
     <<"slider_2_parameter", 0, 4, "plain", "">>,
     <<"slider_2_tune_low", -120, 120, "low", "slider_2_tune_high">>,
     <<"slider_2_tune_high", -120, 120, "high", "slider_2_tune_low">>,
     <<"slider_2_filter_low", -50, 50, "low", "slider_2_filter_high">>,
     <<"slider_2_filter_high", -50, 50, "high", "slider_2_filter_low">>,
     <<"slider_2_layer_low", 0, 127, "low", "slider_2_layer_high">>,
     <<"slider_2_layer_high", 0, 127, "high", "slider_2_layer_low">>,
     <<"slider_2_attack_low", 0, 100, "low", "slider_2_attack_high">>,
     <<"slider_2_attack_high", 0, 100, "high", "slider_2_attack_low">>,
     <<"slider_2_decay_low", 0, 100, "low", "slider_2_decay_high">>,
     <<"slider_2_decay_high", 0, 100, "high", "slider_2_decay_low">> >>

Mpc1kProgramAttr(name) == Mpc1kProgramAttrs[CHOOSE i \in 1..Len(Mpc1kProgramAttrs) : Mpc1kProgramAttrs[i][1] = name]

\* The slider bounds Program.__init__ stores before it loads
Mpc1kProgramDefaults ==
  [ slider_1_tune_low |-> -120,
    slider_1_tune_high |-> 120,
    slider_1_filter_low |-> -50,
    slider_1_filter_high |-> 50,
    slider_1_layer_low |-> 0,
    slider_1_layer_high |-> 127,
    slider_1_attack_low |-> 0,
    slider_1_attack_high |-> 100,
    slider_1_decay_low |-> 0,
    slider_1_decay_high |-> 100,
    slider_2_tune_low |-> -120,
    slider_2_tune_high |-> 120,
    slider_2_filter_low |-> -50,
    slider_2_filter_high |-> 50,
    slider_2_layer_low |-> 0,
    slider_2_layer_high |-> 127,
    slider_2_attack_low |-> 0,
    slider_2_attack_high |-> 100,
    slider_2_decay_low |-> 0,
    slider_2_decay_high |-> 100 ]

\* Mutant of the property setters of mpc1k.Program: the opposite bound is left alone
Mpc1kProgramSetPlain(self, name, value) ==
  LET a == Mpc1kProgramAttr(name)
  IN IF ~IntInRange(value, a[2], a[3]) THEN Raised("ValueError", self) ELSE Returned(SetAttr(self, name, value))

\* Mutant of the property setters of mpc1k.Program: a low value greater than the
\* high bound is stored as the high bound, a high value less than the low bound
\* as the low bound
Mpc1kProgramSetClamped(self, name, value) ==
  LET a == Mpc1kProgramAttr(name)
  IN IF ~IntInRange(value, a[2], a[3]) THEN Raised("ValueError", self)
     ELSE CASE a[4] = "low" /\ value > self[a[5]] -> Returned(SetAttr(self, name, self[a[5]]))
            [] a[4] = "high" /\ value < self[a[5]] -> Returned(SetAttr(self, name, self[a[5]]))
            [] OTHER -> Returned(SetAttr(self, name, value))

\* A property setter of mpc1k.Program.  A low bound's setter assigns the high
\* bound as well when the value is greater than it, a high bound's setter
\* assigns the low bound as well when the value is less than it.
RECURSIVE Mpc1kProgramSet(_, _, _)
Mpc1kProgramSet(self, name, value) ==
  LET a == Mpc1kProgramAttr(name)
  IN IF ~IntInRange(value, a[2], a[3]) THEN Raised("ValueError", self)
     ELSE Bind(SetAttr(self, name, value),
               LAMBDA s :
                 CASE a[4] = "low" /\ value > s[a[5]] -> Mpc1kProgramSet(s, a[5], value)
                   [] a[4] = "high" /\ value < s[a[5]] -> Mpc1kProgramSet(s, a[5], value)
                   [] OTHER -> Returned(s))

\* The loop of Program.load that constructs the Pads
RECURSIVE Mpc1kLoadPads(_, _, _, _)
Mpc1kLoadPads(self, data, i, start) ==
  IF i = NumPads THEN Returned(self)
  ELSE Bind(Mpc1kPadInit(Slice(data, start, start + PadSize)),
            LAMBDA p :
              IF p.status # "ok" THEN Raised(p.status, self)
              ELSE Bind(SetAttr(self, "pad_list", ListAppend(self.pad_list, p.obj)),
                        LAMBDA appended : Mpc1kLoadPads(appended, data, i + 1, start + PadSize)))

\* The loop of Program.load that assigns each Pad's midi_note
RECURSIVE Mpc1kLoadNotes(_, _, _)
Mpc1kLoadNotes(self, notes, i) ==
  IF i = Len(notes) THEN Returned(self)
  ELSE Bind(Mpc1kSetter(self.pad_list[i], "midi_note", 0, 127, notes[i + 1]),
            LAMBDA r :
              IF r.status # "ok" THEN Raised(r.status, self)
              ELSE Bind([self EXCEPT !.pad_list[i] = r.obj], LAMBDA assigned : Mpc1kLoadNotes(assigned, notes, i + 1)))

\* Mutant of those assignments: the values are stored without the setters
RECURSIVE Mpc1kLoadGlobalsDirect(_, _, _)
Mpc1kLoadGlobalsDirect(self, vals, i) ==
  IF i > Len(vals) THEN Returned(self)
  ELSE Mpc1kLoadGlobalsDirect(SetAttr(self, Mpc1kProgramAttrs[i][1], vals[i]), vals, i + 1)

\* The assignments of Program.load from the 'midi_and_sliders' record
RECURSIVE Mpc1kLoadGlobals(_, _, _)
Mpc1kLoadGlobals(self, vals, i) ==
  IF i > Len(vals) THEN Returned(self)
  ELSE Bind(Mpc1kProgramSet(self, Mpc1kProgramAttrs[i][1], vals[i]),
            LAMBDA r : IF r.status = "ok" THEN Mpc1kLoadGlobals(r.obj, vals, i + 1) ELSE r)

\* Program.load(self, data_str) from the pad -> note table on, with the Pads made
Mpc1kLoadTables(self, data) ==
  LET notes == Slice(data, PadMidiNoteOffset, MidiNotePadOffset)
      globals == Slice(data, GlobalOffset, ProgramSize)
  IN IF ~StructUnpackOk(PadMidiNoteFormat, notes) THEN Raised("struct.error", self)
     ELSE Bind(Mpc1kLoadNotes(self, StructUnpack(PadMidiNoteFormat, notes), 0),
               LAMBDA r2 :
                 IF r2.status # "ok" THEN r2
                 ELSE IF ~StructUnpackOk(MidiNotePadFormat, Slice(data, MidiNotePadOffset, GlobalOffset)) THEN Raised("struct.error", r2.obj)
                 ELSE IF ~StructUnpackOk(ProgramFormat, globals) THEN Raised("struct.error", r2.obj)
                 ELSE Bind(StructUnpack(ProgramFormat, globals), LAMBDA unpacked_data : Mpc1kLoadGlobals(r2.obj, unpacked_data, 1)))

\* Program.load(self, data_str)
Mpc1kProgramLoad(self, data) ==
  LET header == Slice(data, 0, PadsOffset)
      h == StructUnpack(HeaderFormat, header)
  IN IF ~StructUnpackOk(HeaderFormat, header) THEN Raised("struct.error", self)
     ELSE Bind(Mpc1kLoadPads(SetAttr(SetAttr(SetAttr(self, "file_size", h[1]), "file_type", h[2]), "pad_list", EmptyList), data, 0, PadsOffset),
               LAMBDA r1 : IF r1.status # "ok" THEN r1 ELSE Mpc1kLoadTables(r1.obj, data))

\* mpc1k.Program(data_str): an empty data_str is replaced by DEFAULT_PGM_DATA;
\* when load raises there is no object
Mpc1kProgramInit(data) ==
  Bind(IF Len(data) = 0 THEN DEFAULT_PGM_DATA ELSE data,
       LAMBDA data_str :
         Bind(Mpc1kProgramLoad(Mpc1kProgramDefaults, data_str),
              LAMBDA r : IF r.status = "ok" THEN r ELSE Raised(r.status, NoObject)))

\* Program.pad_midi_note_list
Mpc1kPadMidiNoteList(self) == [i \in DOMAIN self.pad_list |-> self.pad_list[i].midi_note]

\* Mutant of Program.midi_note_pad_list: a note's entry is the first pad that has it
Mpc1kMidiNotePadListFirst(self) == MidiNotePadsFromFirst([n \in 0..(NumNotes - 1) |-> NoPad], self.pad_list, 0)

\* Program.midi_note_pad_list
Mpc1kMidiNotePadList(self) == MidiNotePadsFrom([n \in 0..(NumNotes - 1) |-> NoPad], self.pad_list, 0)

\* The data property of mpc1k.Sample, made by mpc1k.class_factory
Mpc1kSampleData(s) == StructPack(SampleFormat, AttrValues(Mpc1kSampleAttrs, s))

Mpc1kSampleDataOk(s) == StructPackOk(SampleFormat, AttrValues(Mpc1kSampleAttrs, s))

RECURSIVE Mpc1kJoinSampleData(_, _)
Mpc1kJoinSampleData(sample_list, i) ==
  IF i = ListLen(sample_list) THEN <<>> ELSE Mpc1kSampleData(sample_list[i]) \o Mpc1kJoinSampleData(sample_list, i + 1)

\* Pad.data of mpc1k.py: the Samples' data, then the packed scalar record
Mpc1kPadData(p) == Mpc1kJoinSampleData(p.sample_list, 0) \o StructPack(PadFormat, AttrValues(PadFormatAttrs, p))

Mpc1kPadDataOk(p) ==
  /\ \A i \in DOMAIN p.sample_list : Mpc1kSampleDataOk(p.sample_list[i])
  /\ StructPackOk(PadFormat, AttrValues(PadFormatAttrs, p))

RECURSIVE Mpc1kJoinPadData(_, _)
Mpc1kJoinPadData(pad_list, i) ==
  IF i = ListLen(pad_list) THEN <<>> ELSE Mpc1kPadData(pad_list[i]) \o Mpc1kJoinPadData(pad_list, i + 1)

\* The values Program.data of mpc1k.py packs with 'midi_and_sliders'
Mpc1kGlobalValues(self) == [i \in 1..Len(Mpc1kProgramAttrs) |-> self[Mpc1kProgramAttrs[i][1]]]

\* Program.data of mpc1k.py does not raise
Mpc1kProgramDataOk(self) ==
  /\ StructPackOk(HeaderFormat, <<self.file_size, self.file_type>>)
  /\ StructPackOk(PadMidiNoteFormat, ListToSeq(Mpc1kPadMidiNoteList(self)))
  /\ StructPackOk(MidiNotePadFormat, ListToSeq(Mpc1kMidiNotePadList(self)))
  /\ StructPackOk(ProgramFormat, Mpc1kGlobalValues(self))
  /\ \A i \in DOMAIN self.pad_list : Mpc1kPadDataOk(self.pad_list[i])

\* Program.data of mpc1k.py: the header, the Pads' data, the two tables and the
\* 'midi_and_sliders' record
Mpc1kProgramData(self) ==
  StructPack(HeaderFormat, <<self.file_size, self.file_type>>)
    \o Mpc1kJoinPadData(self.pad_list, 0)
    \o StructPack(PadMidiNoteFormat, ListToSeq(Mpc1kPadMidiNoteList(self)))
    \o StructPack(MidiNotePadFormat, ListToSeq(Mpc1kMidiNotePadList(self)))
    \o StructPack(ProgramFormat, Mpc1kGlobalValues(self))

------------------------------------------------------------------------------
(* The state machine: one program object, of Program.py's class or of     *)
(* mpc1k.py's.                                                             *)
(*   buf   the buffer the constructor read: the one handed to it, or the   *)
(*         default image when none was                                     *)
(*   prog  the Program of Program.py, NoObject before construction, when   *)
(*         the constructor raised, or when the object is mpc1k.Program     *)
(*   legacy  the mpc1k.Program, NoObject likewise                          *)
(*   res   how the last operation ended: "ok", "ValueError", "struct.error"*)
(*   last  the last operation and its arguments                            *)
(*   nops  the number of assignments made since construction               *)
(* Where two Programs exist at once (SpecInstances) the objects are cells  *)
(* of a heap, so that two names can denote the same object:                *)
(*   heap  the objects made so far, by identity                            *)
(*   insts the identities of the Programs constructed, in order            *)
(*   who   the instance (index in insts) the last operation was on         *)
(* A Pad constructed on its own, outside any Program (SpecPads):            *)
(*   pad   the Pad of Pad.py or of mpc1k.py, NoObject before construction  *)
(*         and when the constructor raised                                 *)
(* A setter of mpc1k.Program run call by call (SpecSetter):                *)
(*   call  the setter call about to run: the attribute, the value and the  *)
(*         depth of the call, NoCall when none is                          *)

\* No setter is running
NoCall == [name |-> "", val |-> 0, depth |-> 0]

Op(op, kind, p, s, name, val) == [op |-> op, kind |-> kind, pad |-> p, sample |-> s, name |-> name, val |-> val]

Init ==
  /\ buf = <<>>
  /\ prog = NoObject
  /\ legacy = NoObject
  /\ res = "none"
  /\ last = Op("none", "none", 0, 0, "", 0)
  /\ nops = 0
  /\ heap = EmptyObject
  /\ insts = <<>>
  /\ who = 0
  /\ pad = NoObject
  /\ call = NoCall

\* Program(data)
Construct(data) ==
  /\ last.op = "none"
  /\ LET r == ProgramInit(data)
     IN /\ prog' = r.obj
        /\ res' = r.status
  /\ buf' = data
  /\ last' = Op("init", "program", 0, 0, "", 0)
  /\ nops' = 0
  /\ UNCHANGED <<legacy, heap, insts, who, pad, call>>

\* Program()
ConstructDefault ==
  /\ last.op = "none"
  /\ LET r == ProgramInitNoData
     IN /\ prog' = r.obj
        /\ res' = r.status
  /\ buf' = DEFAULT_PGM_DATA
  /\ last' = Op("init", "default", 0, 0, "", 0)
  /\ nops' = 0
  /\ UNCHANGED <<legacy, heap, insts, who, pad, call>>

\* mpc1k.Program(data)
Mpc1kConstruct(data) ==
  /\ last.op = "none"
  /\ LET r == Mpc1kProgramInit(data)
     IN /\ legacy' = r.obj
        /\ res' = r.status
  /\ buf' = data
  /\ last' = Op("init", "mpc1k", 0, 0, "", 0)
  /\ nops' = 0
  /\ UNCHANGED <<prog, heap, insts, who, pad, call>>

Validator(attrs, name) == attrs[CHOOSE i \in 1..Len(attrs) : attrs[i][1] = name][2]

AttrNames(attrs) == {attrs[i][1] : i \in 1..Len(attrs)}

\* The result of an assignment that may raise
Assigned(r, op) ==
  /\ prog' = r.obj
  /\ res' = r.status
  /\ last' = op
  /\ nops' = nops + 1
  /\ UNCHANGED <<buf, legacy, heap, insts, who, pad, call>>

\* program.<name> = val, for a property made by class_factory
AssignProgramAttr(name, val) ==
  SetterFactory(Validator(ProgramFormatAttrs, name), prog, name, val)

\* program.file_size = val, program.file_type = val: plain attributes
AssignPlainAttr(name, val) == Returned(SetAttr(prog, name, val))

\* Mutant of the Pad setters: the value is stored where every Pad finds it
AssignPadAttrAllPads(p, name, val) ==
  LET r == SetterFactory(Validator(PadFormatAttrs \o PadAdditionalAttrs, name), prog.pads[p], name, val)
  IN [status |-> r.status,
      obj |-> IF r.status = "ok" THEN [prog EXCEPT !.pads = [q \in DOMAIN prog.pads |-> SetAttr(prog.pads[q], name, r.obj[name])]] ELSE prog]

\* program.pads[p].<name> = val
AssignPadAttr(p, name, val) ==
  LET r == SetterFactory(Validator(PadFormatAttrs \o PadAdditionalAttrs, name), prog.pads[p], name, val)
  IN [status |-> r.status, obj |-> [prog EXCEPT !.pads[p] = r.obj]]

\* program.pads[p].samples[s].<name> = val
AssignSampleAttr(p, s, name, val) ==
  LET r == SetterFactory(Validator(SampleFormatAttrs, name), prog.pads[p].samples[s], name, val)
  IN [status |-> r.status, obj |-> [prog EXCEPT !.pads[p].samples[s] = r.obj]]

\* The ten (low, high) pairs of slider bounds
SliderPairs ==
  {<<"slider_" \o n \o "_" \o k \o "_low", "slider_" \o n \o "_" \o k \o "_high">> : n \in {"1", "2"}, k \in {"tune", "filter", "layer", "attack", "decay"}}

SliderBoundNames == {pr[1] : pr \in SliderPairs} \cup {pr[2] : pr \in SliderPairs}

\* Values inside the ranges, tried for the slider bounds
MidVals == {10, 40, 80}

ProgramAttrVals(name) ==
  LET v == Validator(ProgramFormatAttrs, name)
  IN BoundaryVals(v.lower, v.upper) \cup (IF name \in SliderBoundNames THEN MidVals ELSE {})

PadAttrVals(name) ==
  LET v == Validator(PadFormatAttrs \o PadAdditionalAttrs, name)
  IN BoundaryVals(v.lower, v.upper)

\* "abc", "ABCDEFGHIJKLMNOP" (16), "ABCDEFGHIJKLMNOPQ" (17), "a*"
NameVals == {<<97, 98, 99>>, [k \in 1..16 |-> 64 + k], [k \in 1..17 |-> 64 + k], <<97, 42>>}

SampleAttrVals(name) ==
  LET v == Validator(SampleFormatAttrs, name)
  IN IF v.kind = "name" THEN NameVals ELSE BoundaryVals(v.lower, v.upper)

\* The samples whose attributes are assigned
EdgeSamples == {0, 3}

CanAssign == prog # NoObject /\ nops < MaxOps

SetProgramAttr ==
  /\ CanAssign
  /\ \E name \in AttrNames(ProgramFormatAttrs) : \E val \in ProgramAttrVals(name) :
       Assigned(AssignProgramAttr(name, val), Op("set", "program", 0, 0, name, val))

SetFileSize ==
  /\ CanAssign
  /\ \E val \in {0, 65535, 65536} :
       Assigned(AssignPlainAttr("file_size", val), Op("set", "program", 0, 0, "file_size", val))

SetFileType ==
  /\ CanAssign
  /\ \E val \in {<<77, 80, 67>>} :
       Assigned(AssignPlainAttr("file_type", val), Op("set", "program", 0, 0, "file_type", val))

SetPadAttr ==
  /\ CanAssign
  /\ \E p \in EdgePads : \E name \in AttrNames(PadFormatAttrs) \cup {"midi_note"} : \E val \in PadAttrVals(name) :
       Assigned(AssignPadAttr(p, name, val), Op("set", "pad", p, 0, name, val))

SetSampleAttr ==
  /\ CanAssign
  /\ \E p \in EdgePads : \E s \in EdgeSamples : \E name \in AttrNames(SampleFormatAttrs) : \E val \in SampleAttrVals(name) :
       Assigned(AssignSampleAttr(p, s, name, val), Op("set", "sample", p, s, name, val))

\* The values tried for an attribute of mpc1k.Program
Mpc1kAttrVals(name) ==
  LET a == Mpc1kProgramAttr(name)
  IN BoundaryVals(a[2], a[3]) \cup (IF a[4] # "plain" THEN MidVals ELSE {})

\* legacy.<name> = val
Mpc1kSetProgramAttr ==
  /\ legacy # NoObject
  /\ nops < MaxOps
  /\ \E name \in {Mpc1kProgramAttrs[i][1] : i \in 1..Len(Mpc1kProgramAttrs)} : \E val \in Mpc1kAttrVals(name) :
       LET r == Mpc1kProgramSet(legacy, name, val)
       IN /\ legacy' = r.obj
          /\ res' = r.status
          /\ last' = Op("set", "mpc1k", 0, 0, name, val)
          /\ nops' = nops + 1
          /\ UNCHANGED <<buf, prog, heap, insts, who, pad, call>>

Next ==
  \/ \E data \in MutationBuffers : Construct(data)
  \/ ConstructDefault
  \/ SetProgramAttr
  \/ SetFileSize
  \/ SetFileType
  \/ SetPadAttr
  \/ SetSampleAttr
  \/ \E data \in MutationBuffers \cup {<<>>} : Mpc1kConstruct(data)
  \/ Mpc1kSetProgramAttr

\* Construction of either class from two images, then assignments to the attributes
Spec == Init /\ [][Next]_vars

NextParse == \E data \in ParseBuffers : Construct(data)

\* Construction from many buffers
SpecParse == Init /\ [][NextParse]_vars

\* An image in which pads 1 and 4 share note 36, and pad 5 has note 0
SharedNoteImage == Poke(DEFAULT_PGM_DATA, PadMidiNoteOffset, <<37, 36, 42, 82, 36, 0>>)

NoteBuffers == {DEFAULT_PGM_DATA, SharedNoteImage}

NoteVals == {-1, 0, 36, 127, 128}

SetMidiNote ==
  /\ prog # NoObject
  /\ nops < MaxNoteOps
  /\ \E p \in Pads : \E val \in NoteVals :
       Assigned(AssignPadAttr(p, "midi_note", val), Op("set", "pad", p, 0, "midi_note", val))

\* legacy.pad_list[p].midi_note = val
Mpc1kSetMidiNote ==
  /\ legacy # NoObject
  /\ nops < MaxNoteOps
  /\ \E p \in Pads : \E val \in NoteVals :
       LET r == Mpc1kSetter(legacy.pad_list[p], "midi_note", 0, 127, val)
       IN /\ legacy' = [legacy EXCEPT !.pad_list[p] = r.obj]
          /\ res' = r.status
          /\ last' = Op("set", "mpc1k", p, 0, "midi_note", val)
          /\ nops' = nops + 1
          /\ UNCHANGED <<buf, prog, heap, insts, who, pad, call>>

NextNotes ==
  \/ \E data \in NoteBuffers : Construct(data)
  \/ SetMidiNote
  \/ \E data \in NoteBuffers : Mpc1kConstruct(data)
  \/ Mpc1kSetMidiNote

\* Construction of either class, then assignments to the pads' midi_note
SpecNotes == Init /\ [][NextNotes]_vars

\* Buffers that differ in the note -> pad section: an entry of either image set
\* to a byte, and images cut inside or after the section, or holding a bad value
TableBuffers ==
  {Poke(img, MidiNotePadOffset + n, <<b>>) : img \in NoteBuffers, n \in {0, 36, 37, NoPad, NumNotes - 1}, b \in PokeBytes}
    \cup {SubSeq(DEFAULT_PGM_DATA, 1, n) : n \in MidiNotePadOffset..(ProgramSize - 1)}
    \cup {Poke(BadLevel, MidiNotePadOffset + 37, <<255>>)}
    \cup Extensions

NextTables == \E data \in TableBuffers : Construct(data)

\* Construction from buffers that differ in the note -> pad section
SpecTables == Init /\ [][NextTables]_vars

\* Character codes at and next to the ends of the runs of valid name characters
NameEdgeCodes ==
  {0, 1, 31, 32, 33, 34, 35, 41, 42, 44, 45, 46, 47, 48, 57, 58, 63, 64, 65, 90, 91, 94, 95, 96, 97, 122, 123, 124, 125, 126, 127, 128, 255}

\* The default image with the first character of the first Sample's name set
NameBuffers == {Poke(DEFAULT_PGM_DATA, PadsOffset, <<c>>) : c \in NameEdgeCodes}

\* Names assigned: one character; none; 15, 16 and 17 valid characters; 16 and
\* 17 characters of which the last is '*'; 32 valid characters
NameTrials ==
  {<<c>> : c \in NameEdgeCodes}
    \cup {[k \in 1..n |-> 64 + k] : n \in {0, 15, 16, 17}}
    \cup {[k \in 1..n |-> IF k = n THEN 42 ELSE 64 + k] : n \in {16, 17}}
    \cup {[k \in 1..32 |-> 97]}

\* program.pads[0].samples[0].sample_name = val
SetSampleName ==
  /\ CanAssign
  /\ \E val \in NameTrials :
       Assigned(AssignSampleAttr(0, 0, "sample_name", val), Op("set", "sample", 0, 0, "sample_name", val))

\* legacy.pad_list[0].sample_list[0].name = val
Mpc1kSetSampleName ==
  /\ legacy # NoObject
  /\ nops < MaxOps
  /\ \E val \in NameTrials :
       LET r == SetterFactory(NameValidator, legacy.pad_list[0].sample_list[0], "name", val)
       IN /\ legacy' = [legacy EXCEPT !.pad_list[0].sample_list[0] = r.obj]
          /\ res' = r.status
          /\ last' = Op("set", "mpc1k", 0, 0, "name", val)
          /\ nops' = nops + 1
          /\ UNCHANGED <<buf, prog, heap, insts, who, pad, call>>

NextNames ==
  \/ \E data \in NameBuffers : Construct(data)
  \/ SetSampleName
  \/ \E data \in NameBuffers : Mpc1kConstruct(data)
  \/ Mpc1kSetSampleName

\* Construction of either class from images with one name character set, then
\* assignments to the first Sample's name
SpecNames == Init /\ [][NextNames]_vars

------------------------------------------------------------------------------
(* Two Programs at once.  Python objects have identity: a Program, its     *)
(* list of Pads, each Pad, its list of Samples and each Sample are objects *)
(* of their own, and an attribute holds a reference.  program_init and     *)
(* pad_init make every one of them anew (self.pads = [], Pad(...),         *)
(* self.samples = [], Sample(...)).                                        *)

\* The objects of one Program: itself, its list, and per Pad the Pad, its list
\* and four Samples
ProgramCells == 2 + 6 * NumPads

\* Mutant of object creation: the objects of the first Program are used again
NewObjectBaseReused(h) == 0

\* Object creation: the identity of the next object made is not one in the heap
NewObjectBase(h) == Cardinality(DOMAIN h)

\* The objects program_init makes for the Program whose attribute values are obj,
\* with identities from base on
Store(obj, base) ==
  [id \in base..(base + ProgramCells - 1) |->
     IF id = base THEN [obj EXCEPT !["pads"] = base + 1]
     ELSE IF id = base + 1 THEN [p \in DOMAIN obj.pads |-> base + 2 + 6 * p]
     ELSE LET p == (id - base - 2) \div 6
              k == (id - base - 2) % 6
          IN IF k = 0 THEN [obj.pads[p] EXCEPT !["samples"] = id + 1]
             ELSE IF k = 1 THEN [s \in Samples |-> id + 1 + s]
             ELSE obj.pads[p].samples[k - 2]]

\* The attribute values reached from a Pad
PadView(h, id) == [h[id] EXCEPT !["samples"] = [s \in DOMAIN h[h[id].samples] |-> h[h[h[id].samples][s]]]]

\* The attribute values reached from a Program: what its getters return
View(h, root) == [h[root] EXCEPT !["pads"] = [p \in DOMAIN h[h[root].pads] |-> PadView(h, h[h[root].pads][p])]]

\* The object an assignment is made on
TargetCell(h, root, t) ==
  CASE t.kind = "program" -> root
    [] t.kind = "pad" -> h[h[root].pads][t.pad]
    [] t.kind = "sample" -> h[h[h[h[root].pads][t.pad]].samples][t.sample]

TargetAttrs(t) ==
  CASE t.kind = "program" -> ProgramFormatAttrs
    [] t.kind = "pad" -> PadFormatAttrs \o PadAdditionalAttrs
    [] t.kind = "sample" -> SampleFormatAttrs

\* obj.<name> = val: through the property, or plainly for file_size
CellAssign(obj, t) ==
  IF t.name = "file_size" THEN Returned(SetAttr(obj, t.name, t.val))
  ELSE SetterFactory(Validator(TargetAttrs(t), t.name), obj, t.name, t.val)

\* The assignments tried on either instance
InstanceTrials ==
  { Op("set", "program", 0, 0, "slider_1_tune_low", 80),
    Op("set", "program", 0, 0, "slider_1_tune_low", 121),
    Op("set", "program", 0, 0, "file_size", 0),
    Op("set", "pad", 0, 0, "midi_note", 36),
    Op("set", "pad", NumPads - 1, 0, "attack", 100),
    Op("set", "sample", 0, 0, "sample_name", <<97, 98, 99>>),
    Op("set", "sample", NumPads - 1, 3, "level", 50),
    Op("set", "sample", NumPads - 1, 3, "level", 101) }

\* Program(data) or Program(), bound to a new name
InstanceConstruct(r, kind) ==
  /\ Len(insts) < 2
  /\ r.status = "ok"
  /\ LET base == NewObjectBase(heap)
     IN /\ heap' = Store(r.obj, base) @@ heap
        /\ insts' = Append(insts, base)
  /\ who' = Len(insts) + 1
  /\ res' = r.status
  /\ last' = Op("init", kind, 0, 0, "", 0)
  /\ UNCHANGED <<buf, prog, legacy, nops, pad, call>>

InstanceFromBuffer == \E data \in MutationBuffers : InstanceConstruct(ProgramInit(data), "program")

InstanceDefault == InstanceConstruct(ProgramInitNoData, "default")

\* An assignment on instance k
InstanceAssign ==
  /\ nops < MaxInstanceOps
  /\ \E k \in 1..Len(insts) : \E t \in InstanceTrials :
       LET id == TargetCell(heap, insts[k], t)
           r == CellAssign(heap[id], t)
       IN /\ heap' = [heap EXCEPT ![id] = r.obj]
          /\ res' = r.status
          /\ last' = t
          /\ who' = k
  /\ nops' = nops + 1
  /\ UNCHANGED <<buf, prog, legacy, insts, pad, call>>

\* instance k's data property is read: nothing is stored
InstanceData ==
  /\ nops < MaxInstanceOps
  /\ \E k \in 1..Len(insts) :
       /\ res' = IF ProgramDataOk(View(heap, insts[k])) THEN "ok" ELSE "struct.error"
       /\ who' = k
  /\ last' = Op("data", "program", 0, 0, "", 0)
  /\ nops' = nops + 1
  /\ UNCHANGED <<buf, prog, legacy, heap, insts, pad, call>>

NextInstances ==
  \/ InstanceFromBuffer
  \/ InstanceDefault
  \/ InstanceAssign
  \/ InstanceData

\* Two Programs constructed, assigned to and serialized in any order
SpecInstances == Init /\ [][NextInstances]_vars

------------------------------------------------------------------------------
(* A Pad constructed on its own from a buffer *)

\* A Pad record whose four Samples differ: Sample k has level k + 1 and the
\* name "A", "B", "C", "D"
DistinctPadData ==
  [k \in 1..PadSize |->
     IF k <= 4 * SampleSize /\ (k - 1) % SampleSize = 0 THEN 65 + (k - 1) \div SampleSize
     ELSE IF k <= 4 * SampleSize /\ (k - 1) % SampleSize = 17 THEN 1 + (k - 1) \div SampleSize
     ELSE DefaultPadData[k]]

\* What follows the record in a longer buffer
PadTails == {<<255>>, <<1, 2, 3>>, DefaultPadData}

\* The record with one byte set; cut short; followed by more bytes
PadBuffers ==
  {Poke(DistinctPadData, off, <<b>>) : off \in 0..(PadSize - 1), b \in {1, 65}}
    \cup {SubSeq(DistinctPadData, 1, n) : n \in 0..PadSize}
    \cup {Poke(DistinctPadData, off, <<1>>) \o t : off \in {0, PadSize - 1}, t \in PadTails}
    \cup {DistinctPadData \o t : t \in PadTails}

\* Pad(data)
PadConstruct(data) ==
  /\ last.op = "none"
  /\ LET r == PadInit(data)
     IN /\ pad' = IF r.status = "ok" THEN r.obj ELSE NoObject
        /\ res' = r.status
  /\ buf' = data
  /\ last' = Op("init", "pad", 0, 0, "", 0)
  /\ UNCHANGED <<prog, legacy, nops, heap, insts, who, call>>

\* mpc1k.Pad(data)
Mpc1kPadConstruct(data) ==
  /\ last.op = "none"
  /\ LET r == Mpc1kPadInit(data)
     IN /\ pad' = IF r.status = "ok" THEN r.obj ELSE NoObject
        /\ res' = r.status
  /\ buf' = data
  /\ last' = Op("init", "mpc1k_pad", 0, 0, "", 0)
  /\ UNCHANGED <<prog, legacy, nops, heap, insts, who, call>>

NextPads ==
  \/ \E data \in PadBuffers : PadConstruct(data)
  \/ \E data \in PadBuffers : Mpc1kPadConstruct(data)

\* Construction of a Pad of either class from many buffers
SpecPads == Init /\ [][NextPads]_vars

------------------------------------------------------------------------------
(* Program.load of mpc1k.py called again on a constructed Program *)

\* Loads allowed after construction, assignments counted with them
MaxLoadOps == 2

\* A 'midi_and_sliders' record whose tune pairs are (tl, th) and whose other
\* pairs are (l, h), all values from 0 to 127
SliderGlobalData(tl, th, l, h) ==
  << 5, 0, 1, 0, tl, th, l, h, l, h, l, h, l, h,
     1, 1, 1, tl, th, l, h, l, h, l, h, l, h,
     0, 0, 0, 0, 0, 0, 0, 0, 0, 0, 0, 0, 0, 0, 0, 0, 0 >>

\* The default image with another file size and other slider pairs
LoadImage(size, tl, th, l, h) ==
  Poke(Poke(DEFAULT_PGM_DATA, 0, <<size>>), GlobalOffset, SliderGlobalData(tl, th, l, h))

\* The tune pairs (60, 70), the others (40, 45)
WideImage == LoadImage(7, 60, 70, 40, 45)

\* Every pair stored with low greater than high: tune (50, 0), the others (30, 20)
InvertedImage == LoadImage(8, 50, 0, 30, 20)

\* The tune pairs stored with low greater than high, the others (40, 45)
MixedImage == LoadImage(6, 50, 0, 40, 45)

\* Images that load
GoodLoadBuffers == {DEFAULT_PGM_DATA, NarrowImage, WideImage, InvertedImage, MixedImage}

\* Buffers that do not: shorter than the header; cut inside the second Pad;
\* cut one byte before the end; note 255 for the last pad; 101 in the last
\* slider bound
BadLoadBuffers ==
  { SubSeq(WideImage, 1, PadsOffset - 1),
    SubSeq(WideImage, 1, PadsOffset + PadSize + SampleSize),
    SubSeq(WideImage, 1, ProgramSize - 1),
    Poke(WideImage, PadMidiNoteOffset + NumPads - 1, <<255>>),
    Poke(WideImage, GlobalOffset + 26, <<101>>) }

LoadBuffers == GoodLoadBuffers \cup BadLoadBuffers

\* Values assigned to the slider bounds: 200 is outside every range, 80 outside
\* the filter range
SliderTrialVals == {10, 80, 200}

\* legacy.load(data): what load assigned before it raised stays assigned
Mpc1kLoad(data) ==
  /\ legacy # NoObject
  /\ nops < MaxLoadOps
  /\ LET r == Mpc1kProgramLoad(legacy, data)
     IN /\ legacy' = r.obj
        /\ res' = r.status
  /\ buf' = data
  /\ last' = Op("load", "mpc1k", 0, 0, "", 0)
  /\ nops' = nops + 1
  /\ UNCHANGED <<prog, heap, insts, who, pad, call>>

\* legacy.<bound> = val, for a slider bound
Mpc1kSetSliderBound ==
  /\ legacy # NoObject
  /\ nops < MaxOps
  /\ \E name \in SliderBoundNames : \E val \in SliderTrialVals :
       LET r == Mpc1kProgramSet(legacy, name, val)
       IN /\ legacy' = r.obj
          /\ res' = r.status
          /\ last' = Op("set", "mpc1k", 0, 0, name, val)
          /\ nops' = nops + 1
          /\ UNCHANGED <<buf, prog, heap, insts, who, pad, call>>

NextLoad ==
  \/ \E data \in LoadBuffers \cup {<<>>} : Mpc1kConstruct(data)
  \/ Mpc1kSetSliderBound
  \/ \E data \in LoadBuffers : Mpc1kLoad(data)

\* Construction of an mpc1k.Program, assignments to its slider bounds, and loads
SpecLoad == Init /\ [][NextLoad]_vars

------------------------------------------------------------------------------
(* A slider-bound setter of mpc1k.Program, one call at a time: the setter  *)
(* stores the validated value and may call the setter of the opposite      *)
(* bound, which is a call of the same kind.                                *)

\* The depth of calls at which the interpreter raises RuntimeError
RecursionLimit == 4

\* Mutant of the setter's test: the opposite bound is assigned also when it is equal
Mpc1kCorrectsNonStrict(self, a, value) ==
  CASE a[4] = "low" -> value >= self[a[5]]
    [] a[4] = "high" -> value <= self[a[5]]
    [] OTHER -> FALSE

\* The test a setter makes after storing: if value > self.<high> in a low
\* bound's setter, if value < self.<low> in a high bound's
Mpc1kCorrects(self, a, value) ==
  CASE a[4] = "low" -> value > self[a[5]]
    [] a[4] = "high" -> value < self[a[5]]
    [] OTHER -> FALSE

\* legacy.<bound> = val begins: the setter is called
Mpc1kSetterBegin ==
  /\ legacy # NoObject
  /\ call = NoCall
  /\ nops < MaxOps
  /\ \E name \in SliderBoundNames : \E val \in Mpc1kAttrVals(name) :
       /\ call' = [name |-> name, val |-> val, depth |-> 1]
       /\ last' = Op("set", "mpc1k", 0, 0, name, val)
  /\ res' = "running"
  /\ nops' = nops + 1
  /\ UNCHANGED <<buf, prog, legacy, heap, insts, who, pad>>

\* The body of the setter called: int_in_range, the store, the test, and the
\* call of the opposite bound's setter
Mpc1kSetterStep ==
  /\ call # NoCall
  /\ LET a == Mpc1kProgramAttr(call.name)
     IN IF call.depth > RecursionLimit
          THEN /\ res' = "RuntimeError"
               /\ call' = NoCall
               /\ UNCHANGED legacy
        ELSE IF ~IntInRange(call.val, a[2], a[3])
          THEN /\ res' = "ValueError"
               /\ call' = NoCall
               /\ UNCHANGED legacy
        ELSE /\ legacy' = SetAttr(legacy, call.name, call.val)
             /\ IF Mpc1kCorrects(legacy', a, call.val)
                  THEN /\ call' = [name |-> a[5], val |-> call.val, depth |-> call.depth + 1]
                       /\ UNCHANGED res
                  ELSE /\ call' = NoCall
                       /\ res' = "ok"
  /\ UNCHANGED <<buf, prog, last, nops, heap, insts, who, pad>>

NextSetter ==
  \/ \E data \in GoodLoadBuffers : Mpc1kConstruct(data)
  \/ Mpc1kSetterBegin
  \/ Mpc1kSetterStep

\* Construction of an mpc1k.Program, then an assignment to a slider bound run
\* call by call
SpecSetter == Init /\ [][NextSetter]_vars

\* A call that was made runs
SpecSetterFair == SpecSetter /\ WF_vars(Mpc1kSetterStep)

------------------------------------------------------------------------------
(* Both classes constructed from the same buffer *)

\* Complete images: every bounded field of the edge pads, of the tables and of
\* the global record at and next to its bound; images with other slider pairs,
\* ordered and not; names with every kind of character; a note shared by two
\* pads; images followed by more bytes
BothBuffers ==
  {d \in FieldPokes \cup GoodLoadBuffers \cup BadLoadBuffers \cup NameBuffers \cup NoteBuffers \cup Extensions : Len(d) >= ProgramSize}

\* Program(data) of Program.py and Program(data) of mpc1k.py
ConstructBoth(data) ==
  /\ last.op = "none"
  /\ LET r == ProgramInit(data)
     IN /\ prog' = r.obj
        /\ res' = r.status
  /\ legacy' = Mpc1kProgramInit(data).obj
  /\ buf' = data
  /\ last' = Op("init", "both", 0, 0, "", 0)
  /\ nops' = 0
  /\ UNCHANGED <<heap, insts, who, pad, call>>

NextBoth == \E data \in BothBuffers : ConstructBoth(data)

\* Construction of both classes from many complete images
SpecBoth == Init /\ [][NextBoth]_vars

------------------------------------------------------------------------------
(* Claims *)

Constructed == prog # NoObject

\* The validator of the attribute the last assignment named, if it has one
LastAttrs ==
  CASE last.kind = "program" -> ProgramFormatAttrs
    [] last.kind = "pad" -> PadFormatAttrs \o PadAdditionalAttrs
    [] last.kind = "sample" -> SampleFormatAttrs
    [] OTHER -> <<>>

LastValidated == last.op = "set" /\ last.name \in AttrNames(LastAttrs)

LastIntBounded == LastValidated /\ Validator(LastAttrs, last.name).kind = "int"

\* The value the attribute named by the last assignment has now
LastAttrValue ==
  CASE last.kind = "program" -> prog[last.name]
    [] last.kind = "pad" -> prog.pads[last.pad][last.name]
    [] last.kind = "sample" -> prog.pads[last.pad].samples[last.sample][last.name]

\* C1: every Program constructed from a buffer serializes, and the Program
\* constructed from its serialized bytes has the same value for every attribute
\* of the Program, of its Pads (midi_note included) and of their Samples, and the
\* same pad_midi_notes and midi_note_pads.
RoundTripFields ==
  Constructed =>
    /\ ProgramDataOk(prog)
    /\ LET r == ProgramInit(ProgramData(prog))
       IN /\ r.status = "ok"
          /\ r.obj = prog
          /\ ProgramPadMidiNotes(r.obj) = ProgramPadMidiNotes(prog)
          /\ ProgramMidiNotePads(r.obj) = ProgramMidiNotePads(prog)

\* A Program whose serialized bytes differ from the buffer it was read from
\* (a pad byte or a stale note -> pad entry is not kept), and whose pad 0 has a
\* note that is not the default image's
RoundTripWitness ==
  /\ Constructed
  /\ ProgramData(prog) # buf
  /\ prog.pads[0].midi_note # DefaultPadMidiNoteData[1]

\* C4: assigning lower - 1 or upper + 1 to an integer-bounded attribute of a
\* Sample, a Pad (midi_note included) or the Program raises ValueError, and
\* assigning lower or upper succeeds and stores the value.
BoundEnforcement ==
  LastIntBounded =>
    LET v == Validator(LastAttrs, last.name)
    IN /\ last.val \in {v.lower - 1, v.upper + 1} => res = "ValueError"
       /\ last.val \in {v.lower, v.upper} => (res = "ok" /\ LastAttrValue = last.val)

\* tuning = -3601 was rejected on a Sample
BoundEnforcementWitness ==
  /\ LastIntBounded
  /\ last.kind = "sample"
  /\ last.name = "tuning"
  /\ last.val = -3601
  /\ res = "ValueError"

\* C6: constructing a Program, a Pad or a Sample from a buffer that is long
\* enough and holds, for some integer-bounded field, a value outside the
\* field's bound raises ValueError, and no object is made.
ValidationOnParse ==
  last.op = "init" =>
    /\ (Len(buf) >= ProgramSize /\ \E f \in BoundedFields : Outside(buf, f)) => (res = "ValueError" /\ prog = NoObject)
    /\ \A p \in Pads :
         (Len(PadSlice(buf, p)) >= PadSize /\ \E f \in PadRecordFields(p) : f.validator.kind = "int" /\ Outside(buf, f))
           => PadInit(PadSlice(buf, p)).status = "ValueError"
    /\ \A p \in Pads : \A s \in Samples :
         (Len(SampleSlice(buf, p, s)) >= SampleSize /\ \E f \in SampleRecordFields(p, s) : f.validator.kind = "int" /\ Outside(buf, f))
           => SampleInit(SampleSlice(buf, p, s)).status = "ValueError"

\* A full-length buffer whose last pad holds filter_1_type = -1 (byte 255) was rejected
ValidationOnParseWitness ==
  /\ last.op = "init"
  /\ Len(buf) >= ProgramSize
  /\ \E f \in BoundedFields : f.name = "filter_1_type" /\ f.pad = NumPads - 1 /\ FieldValue(buf, f) = -1
  /\ res = "ValueError"
  /\ prog = NoObject

\* C7 as claimed: a buffer shorter than the Program's (the Pad's, the Sample's)
\* size makes the constructor raise struct.error and make no object.
ShortBufferFormatError ==
  last.op = "init" =>
    /\ Len(buf) < ProgramSize => (res = "struct.error" /\ prog = NoObject)
    /\ \A p \in Pads : Len(PadSlice(buf, p)) < PadSize => PadInit(PadSlice(buf, p)).status = "struct.error"
    /\ \A p \in Pads : \A s \in Samples :
         Len(SampleSlice(buf, p, s)) < SampleSize => SampleInit(SampleSlice(buf, p, s)).status = "struct.error"

\* C7 as amended: a short buffer always makes the constructor raise and make no
\* object.  The error is ValueError when a record that lies completely inside the
\* buffer holds an invalid value (that record is unpacked and validated before the
\* missing bytes are reached), and struct.error otherwise; a short Sample buffer
\* always raises struct.error.
ShortBufferFails ==
  last.op = "init" =>
    /\ Len(buf) < ProgramSize =>
         /\ prog = NoObject
         /\ res = IF HoldsInvalid(buf, BufferFields) THEN "ValueError" ELSE "struct.error"
    /\ \A p \in Pads : Len(PadSlice(buf, p)) < PadSize =>
         PadInit(PadSlice(buf, p)).status = IF HoldsInvalid(buf, PadRecordFields(p)) THEN "ValueError" ELSE "struct.error"
    /\ \A p \in Pads : \A s \in Samples :
         Len(SampleSlice(buf, p, s)) < SampleSize => SampleInit(SampleSlice(buf, p, s)).status = "struct.error"

\* A buffer one byte short whose first Sample holds level 255: ValueError, not struct.error
ShortBufferWitness ==
  /\ last.op = "init"
  /\ Len(buf) = ProgramSize - 1
  /\ HoldsInvalid(buf, BufferFields)
  /\ res = "ValueError"
  /\ prog = NoObject

\* Where the buffer holds each slider bound
SliderField == [name \in SliderBoundNames |-> CHOOSE f \in BufferFields : f.kind = "program" /\ f.name = name]

\* The (low, high) pairs of slider bounds the buffer holds are all ordered
BufferPairsOrdered ==
  \A pr \in SliderPairs : FieldValue(buf, SliderField[pr[1]]) <= FieldValue(buf, SliderField[pr[2]])

\* C2: a Program constructed from a buffer whose ten slider pairs are ordered
\* has, after any assignments to its attributes, low <= high in each of the ten
\* pairs.  (The setters of Program.py validate the range only: the claim fails.)
SliderPairInvariant ==
  (Constructed /\ BufferPairsOrdered) => \A pr \in SliderPairs : prog[pr[1]] <= prog[pr[2]]

\* The pair whose low (high) bound is the attribute called name
PairOfLow(name) == CHOOSE pr \in SliderPairs : pr[1] = name

PairOfHigh(name) == CHOOSE pr \in SliderPairs : pr[2] = name

\* C3: assigning a low bound an in-range value greater than the current high
\* bound succeeds and leaves the high bound equal to that value; assigning a
\* high bound an in-range value less than the current low bound succeeds and
\* leaves the low bound equal to that value.  (Program.py's setters leave the
\* opposite bound alone: the claim fails.)
SliderAutoCorrection ==
  [][(prog # NoObject /\ last'.op = "set" /\ last'.kind = "program" /\ last'.name \in SliderBoundNames
        /\ Validates(Validator(ProgramFormatAttrs, last'.name), last'.val)) =>
       /\ (last'.name \in {pr[1] : pr \in SliderPairs} /\ last'.val > prog[PairOfLow(last'.name)[2]])
            => (res' = "ok" /\ prog'[PairOfLow(last'.name)[2]] = last'.val)
       /\ (last'.name \in {pr[2] : pr \in SliderPairs} /\ last'.val < prog[PairOfHigh(last'.name)[1]])
            => (res' = "ok" /\ prog'[PairOfHigh(last'.name)[1]] = last'.val)]_vars

\* C5: an assignment that the attribute's validator rejects leaves the object
\* as it was, in every attribute: the Program of Program.py with its Pads and
\* their Samples, and the mpc1k.Program, whose slider-bound setters adjust the
\* opposite bound only after the value has been accepted.
RejectedAssignmentAtomic ==
  [][(last'.op = "set" /\ res' # "ok") => (prog' = prog /\ legacy' = legacy)]_vars

\* The mpc1k.Program read from the narrow image (slider 1 tune 0..50) rejected
\* slider_1_tune_low = 121, which is greater than the high bound, and the high
\* bound is still 50; and this is not the only kind of rejection reached
RejectedAssignmentWitness ==
  /\ last.op = "set"
  /\ last.kind = "mpc1k"
  /\ last.name = "slider_1_tune_low"
  /\ last.val = 121
  /\ res = "ValueError"
  /\ legacy.slider_1_tune_low = 0
  /\ legacy.slider_1_tune_high = 50

\* C8: a constructed Program serializes after any successful assignments to
\* its attributes, file_size and file_type included.  (file_size is a plain
\* attribute that nothing validates: 65536 is stored and '<H' cannot pack it.)
SerializeNeverFails == Constructed => ProgramDataOk(prog)

\* The pads whose midi_note is n, in a pad -> note list
Owners(notes, n) == {p \in DOMAIN notes : notes[p] = n}

Highest(S) == CHOOSE x \in S : \A y \in S : y <= x

\* Every pad is the entry of its note, and a note of no pad has the entry "no pad"
EveryPadOwnsItsNote(notes, t) ==
  /\ \A p \in DOMAIN notes : t[notes[p]] = p
  /\ \A n \in 0..(NumNotes - 1) : Owners(notes, n) = {} => t[n] = NoPad

\* C9 as claimed: after construction and any assignments to the pads' midi_note,
\* for each pad p with midi_note n, midi_note_pads[n] = p, and every note that
\* is the midi_note of no pad has entry 64; for Program.py's Program and for
\* mpc1k.Program's pad_midi_note_list and midi_note_pad_list.
TableInvariant ==
  /\ Constructed => EveryPadOwnsItsNote(ProgramPadMidiNotes(prog), ProgramMidiNotePads(prog))
  /\ legacy # NoObject => EveryPadOwnsItsNote(Mpc1kPadMidiNoteList(legacy), Mpc1kMidiNotePadList(legacy))

\* Every pad whose note no pad after it has is the entry of its note, every
\* entry other than "no pad" is a pad that has the note, and a note of no pad
\* has the entry "no pad"
LastPadOwnsItsNote(notes, t) ==
  /\ \A p \in DOMAIN notes : (\A q \in DOMAIN notes : q > p => notes[q] # notes[p]) => t[notes[p]] = p
  /\ \A n \in 0..(NumNotes - 1) : t[n] # NoPad => (t[n] \in DOMAIN notes /\ notes[t[n]] = n)
  /\ \A n \in 0..(NumNotes - 1) : Owners(notes, n) = {} => t[n] = NoPad

\* C9 as amended: nothing keeps two pads from having the same midi_note, and
\* then only the last of them is the entry of the note.  For each pad p with
\* midi_note n that no pad of higher index has, midi_note_pads[n] = p; every
\* entry other than 64 is a pad whose midi_note is that note; every note that is
\* the midi_note of no pad has entry 64.
TableInvariantLastPad ==
  /\ Constructed => LastPadOwnsItsNote(ProgramPadMidiNotes(prog), ProgramMidiNotePads(prog))
  /\ legacy # NoObject => LastPadOwnsItsNote(Mpc1kPadMidiNoteList(legacy), Mpc1kMidiNotePadList(legacy))

\* After an assignment pads 0 and 1 both have note 36 and the entry of 36 is pad 1
TableInvariantWitness ==
  /\ Constructed
  /\ last.op = "set"
  /\ res = "ok"
  /\ last.pad = 0
  /\ prog.pads[0].midi_note = 36
  /\ prog.pads[1].midi_note = 36
  /\ Owners(ProgramPadMidiNotes(prog), 36) = {0, 1}
  /\ ProgramMidiNotePads(prog)[36] = 1

\* C10: midi_note_pads has exactly 128 entries, each in 0..64; the entry of a
\* note is the highest index of the pads that have the note, and 64 when no pad
\* has it.  In particular, when pad 5 is the only pad with note 0 the entry of
\* note 0 is 5.
InverseTableDerivation ==
  Constructed =>
    LET notes == ProgramPadMidiNotes(prog)
        t == ProgramMidiNotePads(prog)
    IN /\ DOMAIN t = 0..127
       /\ \A n \in DOMAIN t : t[n] \in 0..64
       /\ \A n \in DOMAIN t : t[n] = IF Owners(notes, n) = {} THEN 64 ELSE Highest(Owners(notes, n))
       /\ Owners(notes, 0) = {5} => t[0] = 5

\* Pad 5 was assigned note 0 and is the only pad with it, while pads 1 and 4
\* share note 36, whose entry is 4
InverseTableWitness ==
  /\ Constructed
  /\ last.op = "set"
  /\ last.pad = 5
  /\ last.val = 0
  /\ res = "ok"
  /\ Owners(ProgramPadMidiNotes(prog), 0) = {5}
  /\ ProgramMidiNotePads(prog)[0] = 5
  /\ Owners(ProgramPadMidiNotes(prog), 36) = {1, 4}
  /\ ProgramMidiNotePads(prog)[36] = 4

\* The buffer with every byte it has of the note -> pad section set to b
WithNotePadSection(data, b) == Poke(data, MidiNotePadOffset, [k \in 1..NumNotes |-> b])

\* The bytes the buffer has of the note -> pad section
NotePadSection(data) == Slice(data, MidiNotePadOffset, GlobalOffset)

\* C11: the note -> pad section of the buffer is read and not used.  A buffer of
\* the same length that differs from the one constructed from only in bytes of
\* that section (here: the section filled with 0, with 64 or with 255) fails to
\* parse with the same error when this one failed, and otherwise parses to a
\* Program with the same attributes, the same pad_midi_notes and midi_note_pads
\* and the same serialized bytes; so no content of the section makes the parse fail.
NotePadSectionUntrusted ==
  last.op = "init" =>
    \A b \in {0, NoPad, 255} :
      LET r == ProgramInit(WithNotePadSection(buf, b))
      IN /\ r.status = res
         /\ r.obj = prog
         /\ Constructed =>
              /\ ProgramPadMidiNotes(r.obj) = ProgramPadMidiNotes(prog)
              /\ ProgramMidiNotePads(r.obj) = ProgramMidiNotePads(prog)
              /\ ProgramDataOk(r.obj) = ProgramDataOk(prog)
              /\ ProgramDataOk(prog) => ProgramData(r.obj) = ProgramData(prog)

\* A full-length buffer whose note -> pad section has the byte 255 (no pad index)
\* in the entry of note 37, which pad 0 has, was parsed, and the serialized bytes
\* have pad 0 there
NotePadSectionWitness ==
  /\ last.op = "init"
  /\ res = "ok"
  /\ Len(buf) = ProgramSize
  /\ NotePadSection(buf)[38] = 255
  /\ prog.pads[0].midi_note = 37
  /\ NotePadSection(ProgramData(prog))[38] = 0

\* The bytes the buffer has of the pad -> note section
PadNoteSection(data) == Slice(data, PadMidiNoteOffset, MidiNotePadOffset)

\* The inverse of a pad -> note section: for each note the byte "no pad" when no
\* pad has it, and else the pad written last in ascending pad order, the
\* highest one (pads are counted from 0, the section's bytes from 1)
InverseOfSection(notes) ==
  [k \in 1..NumNotes |->
     IF \A p \in 1..Len(notes) : notes[p] # k - 1 THEN NoPad
     ELSE Highest({p \in 1..Len(notes) : notes[p] = k - 1}) - 1]

\* C12: whenever the Program serializes, the inverse table computed from the
\* pad -> note section of the serialized bytes is, byte for byte, the note -> pad
\* section of the same bytes, also when two pads have the same note.
OutputTablesConsistent ==
  (Constructed /\ ProgramDataOk(prog)) =>
    LET out == ProgramData(prog)
    IN /\ Len(NotePadSection(out)) = NumNotes
       /\ NotePadSection(out) = InverseOfSection(PadNoteSection(out))

\* Pads 0 and 1 were both assigned note 36 (pad 4 has it in the image of shared
\* notes or not): the serialized pad -> note section holds 36 twice at its
\* start and the entry of note 36 is not pad 0
OutputTablesWitness ==
  /\ Constructed
  /\ nops = 2
  /\ res = "ok"
  /\ ProgramDataOk(prog)
  /\ SubSeq(PadNoteSection(ProgramData(prog)), 1, 2) = <<36, 36>>
  /\ NotePadSection(ProgramData(prog))[37] \in {1, 4}

\* file_size and file_type, the two attributes no property validates, are as the
\* constructor read them: every value the Program holds was stored by the
\* constructor or through a validating property
OnlyValidatedAssignments ==
  <<prog.file_size, prog.file_type>> = StructUnpack(HeaderFormat, Slice(buf, 0, PadsOffset))

\* C13: a Program that was constructed, and then assigned to through validating
\* properties only, serializes, to 24 + 164 * pads + pads + 128 + 44 bytes
\* (10756 for the 64 pads of the file format): the 24 bytes of the header, the
\* 164 bytes of each Pad in pad order (its four Samples of 24 bytes, then its
\* record of 68), one byte per pad of the pad -> note table, the 128 bytes of
\* the note -> pad table, and the 44 bytes of the global record.
FixedLayout ==
  (Constructed /\ OnlyValidatedAssignments) =>
    /\ ProgramDataOk(prog)
    /\ 24 + 164 * 64 + 64 + 128 + 44 = 10756
    /\ LET out == ProgramData(prog)
           tables == 24 + 164 * NumPads
       IN /\ Len(out) = tables + NumPads + 128 + 44
          /\ Slice(out, 0, 24) = StructPack(HeaderFormat, <<prog.file_size, prog.file_type>>)
          /\ \A p \in Pads :
               /\ Slice(out, 24 + 164 * p, 24 + 164 * (p + 1)) = PadData(prog.pads[p])
               /\ \A s \in Samples :
                    Slice(out, 24 + 164 * p + 24 * s, 24 + 164 * p + 24 * (s + 1)) = SampleData(prog.pads[p].samples[s])
               /\ Slice(out, 24 + 164 * p + 96, 24 + 164 * (p + 1)) = ClassPack(PadFormat, PadFormatAttrs, prog.pads[p])
          /\ Slice(out, tables, tables + NumPads) = [k \in 1..NumPads |-> prog.pads[k - 1].midi_note]
          /\ Slice(out, tables + NumPads, tables + NumPads + 128) = ListToSeq(ProgramMidiNotePads(prog))
          /\ Slice(out, tables + NumPads + 128, tables + NumPads + 128 + 44) = ClassPack(ProgramFormat, ProgramFormatAttrs, prog)

\* The last pad's attack was assigned 100, and the serialized bytes hold 100
\* where the buffer holds that pad's attack
FixedLayoutWitness ==
  /\ Constructed
  /\ OnlyValidatedAssignments
  /\ res = "ok"
  /\ last.kind = "pad"
  /\ last.pad = NumPads - 1
  /\ last.name = "attack"
  /\ last.val = 100
  /\ \E f \in BufferFields : f.kind = "pad" /\ f.pad = NumPads - 1 /\ f.name = "attack" /\ FieldValue(ProgramData(prog), f) = 100
  /\ \E f \in BufferFields : f.kind = "pad" /\ f.pad = NumPads - 1 /\ f.name = "attack" /\ FieldValue(buf, f) = 0

\* The first 24 bytes of what pad_init hands to Sample s of pad p, when the
\* buffer has them all
SampleBytes(data, p, s) == Slice(SampleSlice(data, p, s), 0, SampleSize)

\* The Sample records of the buffer that are looked at: those of the first and
\* the last pad
SampleRecords == EdgePads \X Samples

\* C14 as claimed: a Sample constructed from 24 bytes serializes to exactly
\* those 24 bytes.
SampleByteIdentity ==
  last.op = "init" =>
    \A ps \in SampleRecords :
      LET b == SampleBytes(buf, ps[1], ps[2])
          r == SampleInit(b)
      IN (Len(b) = 24 /\ r.status = "ok") => (SampleDataOk(r.obj) /\ SampleData(r.obj) = b)

\* The 24 bytes with the two pad bytes of the Sample format (offsets 16 and 23) null
NullPadded(b) == [k \in 1..Len(b) |-> IF k \in {17, 24} THEN 0 ELSE b[k]]

\* C14 as amended: the two pad bytes of the format are not read and are written
\* null.  A Sample constructed from 24 bytes serializes to 24 bytes that are
\* those bytes with the pad bytes at offsets 16 and 23 set to null: exactly
\* those bytes when the two pad bytes are null, and never otherwise.
SampleBytesUpToPadding ==
  last.op = "init" =>
    \A ps \in SampleRecords :
      LET b == SampleBytes(buf, ps[1], ps[2])
          r == SampleInit(b)
      IN (Len(b) = 24 /\ r.status = "ok") =>
           /\ SampleDataOk(r.obj)
           /\ Len(SampleData(r.obj)) = 24
           /\ SampleData(r.obj) = NullPadded(b)
           /\ (SampleData(r.obj) = b) = (b[17] = 0 /\ b[24] = 0)

\* The first Sample of the buffer has the pad byte at offset 16 set to 255, the
\* Program and so the Sample was constructed, and the Sample's bytes have null there
SampleBytesWitness ==
  /\ last.op = "init"
  /\ res = "ok"
  /\ SampleBytes(buf, 0, 0)[17] = 255
  /\ SampleInit(SampleBytes(buf, 0, 0)).status = "ok"
  /\ SampleData(prog.pads[0].samples[0])[17] = 0
  /\ SampleData(prog.pads[0].samples[0]) = SampleData(SampleInit(SampleBytes(buf, 0, 0)).obj)

\* C15: a Program that was constructed and then assigned to through validating
\* properties only (a Sample name shorter than 16 characters included)
\* serializes, and the Program constructed from the serialized bytes has the
\* same value for every attribute of the Program, its Pads and their Samples.
\* (A name shorter than 16 characters is stored as assigned and is written
\* padded with null bytes, so it is read back 16 characters long: the claim fails.)
RoundTripAfterMutation ==
  (Constructed /\ OnlyValidatedAssignments) =>
    /\ ProgramDataOk(prog)
    /\ LET r == ProgramInit(ProgramData(prog))
       IN r.status = "ok" /\ r.obj = prog

\* C16: Program() with no buffer succeeds and has the attribute values of
\* Program(DEFAULT_PGM_DATA); it serializes to the fixed total length (10756
\* bytes for the 64 pads of the file format), to DEFAULT_PGM_DATA byte for
\* byte, and the Program constructed from the serialized bytes has the same
\* attribute values.
DefaultProgram ==
  (last.kind = "default" /\ nops = 0) =>
    /\ res = "ok"
    /\ prog = ProgramInit(DEFAULT_PGM_DATA).obj
    /\ ProgramInit(DEFAULT_PGM_DATA).status = "ok"
    /\ ProgramDataOk(prog)
    /\ Len(ProgramData(prog)) = 24 + 164 * NumPads + NumPads + 128 + 44
    /\ 24 + 164 * 64 + 64 + 128 + 44 = 10756
    /\ ProgramData(prog) = DEFAULT_PGM_DATA
    /\ ProgramInit(ProgramData(prog)) = Returned(prog)

\* Program() was called, and the Program has the default image's header values
\* and first pad note
DefaultProgramWitness ==
  /\ last.op = "init"
  /\ last.kind = "default"
  /\ Constructed
  /\ prog.file_size = 10756
  /\ prog.pads[0].midi_note = 37
  /\ prog.slider_1_tune_low = -120

Max(a, b) == IF a > b THEN a ELSE b

\* C17: in mpc1k.Program, for each of the ten pairs, a successful assignment of
\* v to the low bound leaves low = v and high = max(previous high, v), and a
\* successful assignment of v to the high bound leaves high = v and
\* low = min(previous low, v); no other attribute changes.  So the opposite
\* bound changes only when v is out of order with it.
Mpc1kSliderAutoCorrection ==
  [][(legacy # NoObject /\ last'.op = "set" /\ last'.kind = "mpc1k" /\ last'.name \in SliderBoundNames /\ res' = "ok") =>
       /\ \A pr \in SliderPairs :
            /\ last'.name = pr[1] =>
                 /\ legacy'[pr[1]] = last'.val
                 /\ legacy'[pr[2]] = Max(legacy[pr[2]], last'.val)
                 /\ (legacy'[pr[2]] # legacy[pr[2]]) = (last'.val > legacy[pr[2]])
            /\ last'.name = pr[2] =>
                 /\ legacy'[pr[2]] = last'.val
                 /\ legacy'[pr[1]] = Min(legacy[pr[1]], last'.val)
                 /\ (legacy'[pr[1]] # legacy[pr[1]]) = (last'.val < legacy[pr[1]])
            /\ last'.name \notin {pr[1], pr[2]} => (legacy'[pr[1]] = legacy[pr[1]] /\ legacy'[pr[2]] = legacy[pr[2]])
       /\ \A a \in DOMAIN legacy \ SliderBoundNames : legacy'[a] = legacy[a]]_vars

\* The mpc1k.Program read from the narrow image (slider 1 tune 0..50) was
\* assigned slider_1_tune_low = 80, and both bounds of the pair are 80
Mpc1kSliderWitness ==
  /\ last.op = "set"
  /\ last.kind = "mpc1k"
  /\ last.name = "slider_1_tune_low"
  /\ last.val = 80
  /\ res = "ok"
  /\ legacy.slider_1_tune_low = 80
  /\ legacy.slider_1_tune_high = 80
  /\ legacy.slider_1_filter_high = 30

\* C18: midi_note is not in a Pad's bytes.  The Pad constructed from its 164
\* bytes has no midi_note, the Program's Pad is that Pad with the midi_note of
\* the pad -> note table; an assignment to a Pad's midi_note changes no byte of
\* that Pad's bytes, and of the Program's bytes only ones of the pad -> note
\* table and of the note -> pad table (so no byte of any Pad).
MidiNoteOutsidePadBytes ==
  [][/\ (last'.op = "init" /\ last'.kind = "program" /\ prog' # NoObject) =>
          \A p \in Pads :
            LET r == PadInit(PadSlice(buf', p))
            IN /\ r.status = "ok"
               /\ "midi_note" \notin DOMAIN r.obj
               /\ prog'.pads[p] = SetAttr(r.obj, "midi_note", buf'[PadMidiNoteOffset + p + 1])
     /\ (Constructed /\ last'.op = "set" /\ last'.kind = "pad" /\ last'.name = "midi_note") =>
          /\ PadDataOk(prog'.pads[last'.pad])
          /\ PadData(prog'.pads[last'.pad]) = PadData(prog.pads[last'.pad])
          /\ ProgramDataOk(prog) => ProgramDataOk(prog')
          /\ ProgramDataOk(prog) =>
               LET before == ProgramData(prog)
                   after == ProgramData(prog')
               IN /\ Slice(after, 0, PadMidiNoteOffset) = Slice(before, 0, PadMidiNoteOffset)
                  /\ SliceFrom(after, GlobalOffset) = SliceFrom(before, GlobalOffset)]_vars

\* Pad 0 was assigned note 127, which the buffer does not hold for it: the
\* Pad's bytes are still those of the buffer, and the Program's bytes are not
MidiNoteWitness ==
  /\ Constructed
  /\ last.op = "set"
  /\ last.name = "midi_note"
  /\ last.pad = 0
  /\ res = "ok"
  /\ prog.pads[0].midi_note = 127
  /\ buf[PadMidiNoteOffset + 1] # 127
  /\ PadData(prog.pads[0]) = PadSlice(buf, 0)
  /\ PadNoteSection(ProgramData(prog))[1] = 127
  /\ NotePadSection(ProgramData(prog))[128] = 0

\* The codes of the ASCII letters, the digits, the characters !#$%&'()-@_{},
\* the space and the null character
AllowedNameCodes ==
  (65..90) \cup (97..122) \cup (48..57) \cup {33, 35, 36, 37, 38, 39, 40, 41, 45, 64, 95, 123, 125} \cup {32} \cup {0}

NameAccepted(v) == Len(v) <= 16 /\ \A k \in 1..Len(v) : v[k] \in AllowedNameCodes

\* C19: a Sample name of more than 16 characters, or with a character that is
\* not an ASCII letter, a digit, one of !#$%&'()-@_{}, a space or a null
\* character, is rejected with ValueError: assigned, it leaves the Sample's name
\* and the whole object as they were; parsed, no object is made.  Every name of
\* at most 16 characters of that set is accepted and stored.  For the Sample of
\* Sample.py and for mpc1k.Sample.
SampleNameValidation ==
  [][/\ (last'.op = "set" /\ last'.kind = "sample" /\ last'.name = "sample_name") =>
          IF NameAccepted(last'.val)
          THEN res' = "ok" /\ prog'.pads[last'.pad].samples[last'.sample].sample_name = last'.val
          ELSE /\ res' = "ValueError"
               /\ prog'.pads[last'.pad].samples[last'.sample].sample_name = prog.pads[last'.pad].samples[last'.sample].sample_name
               /\ prog' = prog
     /\ (last'.op = "set" /\ last'.kind = "mpc1k" /\ last'.name = "name") =>
          IF NameAccepted(last'.val)
          THEN res' = "ok" /\ legacy'.pad_list[last'.pad].sample_list[last'.sample].name = last'.val
          ELSE /\ res' = "ValueError"
               /\ legacy'.pad_list[last'.pad].sample_list[last'.sample].name = legacy.pad_list[last'.pad].sample_list[last'.sample].name
               /\ legacy' = legacy
     /\ (last'.op = "init" /\ Len(buf') >= PadsOffset + SampleSize) =>
          IF NameAccepted(Slice(buf', PadsOffset, PadsOffset + 16))
          THEN res' = "ok" =>
                 /\ last'.kind = "program" => prog'.pads[0].samples[0].sample_name = Slice(buf', PadsOffset, PadsOffset + 16)
                 /\ last'.kind = "mpc1k" => legacy'.pad_list[0].sample_list[0].name = Slice(buf', PadsOffset, PadsOffset + 16)
          ELSE res' = "ValueError" /\ prog' = NoObject /\ legacy' = NoObject]_vars

\* The Sample whose name was parsed with the first character '}' was assigned a
\* name of 17 letters, which was rejected, and the name is still the parsed one
SampleNameWitness ==
  /\ Constructed
  /\ last.op = "set"
  /\ last.name = "sample_name"
  /\ Len(last.val) = 17
  /\ NameAccepted(SubSeq(last.val, 1, 16))
  /\ res = "ValueError"
  /\ buf[PadsOffset + 1] = 125
  /\ prog.pads[0].samples[0].sample_name = Slice(buf, PadsOffset, PadsOffset + 16)

\* C20: with two Program instances, however constructed, an operation on one
\* (an assignment, accepted or rejected, reading its data, or constructing it)
\* leaves every attribute value reached from the other, and so the other's
\* serialized bytes, as they were; reading data leaves the instance read
\* unchanged too; and the default image is never changed: Program() gives the
\* default Program whatever was done before.
InstanceIsolation ==
  [][/\ \A j \in 1..Len(insts) :
          (j # who' \/ last'.op = "data") =>
            /\ View(heap', insts'[j]) = View(heap, insts[j])
            /\ ProgramDataOk(View(heap', insts'[j])) = ProgramDataOk(View(heap, insts[j]))
            /\ (last'.op = "set" /\ ProgramDataOk(View(heap, insts[j]))) =>
                 ProgramData(View(heap', insts'[j])) = ProgramData(View(heap, insts[j]))
     /\ (last'.op = "init" /\ last'.kind = "default" /\ Len(insts') > 0) =>
          /\ View(heap', insts'[who']) = ProgramInit(DEFAULT_PGM_DATA).obj
          /\ ProgramData(View(heap', insts'[who'])) = DEFAULT_PGM_DATA]_vars

\* Two Programs were read from the narrow image; after an earlier operation the
\* first was assigned slider_1_tune_low = 80, and the second still has 0
InstanceIsolationWitness ==
  /\ Len(insts) = 2
  /\ nops = 2
  /\ last.op = "set"
  /\ last.name = "slider_1_tune_low"
  /\ who = 1
  /\ res = "ok"
  /\ View(heap, insts[1]).slider_1_tune_low = 80
  /\ View(heap, insts[2]).slider_1_tune_low = 0
  /\ View(heap, insts[2]).slider_1_tune_high = 50

\* C21: Pad.size is 164, a Sample record 24 bytes, the scalar record 68 bytes
\* with 21 fields.  Constructing a Pad from a buffer gives what constructing it
\* from the buffer's first 164 bytes gives (the same Pad, or the same error);
\* when it succeeds, Sample k is the Sample read from bytes [24k, 24k + 24), in
\* that order, each scalar field is the value decoded at its offset from byte
\* 96, and the Pad's data is 164 bytes: the data of Samples 0..3 in order, then
\* the packed scalar record.  The same holds of mpc1k.Pad for a buffer that is
\* not empty.
PadParseLayout ==
  /\ PadSize = 164 /\ SampleSize = 24 /\ CalcSize(PadFormat) = 68 /\ Len(PadFormatAttrs) = 21
  /\ (last.op = "init" /\ last.kind = "pad") =>
       /\ PadInit(buf) = PadInit(Slice(buf, 0, 164))
       /\ res = "ok" =>
            /\ Len(buf) >= 164
            /\ DOMAIN pad.samples = 0..3
            /\ \A k \in 0..3 : pad.samples[k] = SampleInit(Slice(buf, 24 * k, 24 * k + 24)).obj
            /\ \A f \in FormatFields(PadFormat, PadFormatAttrs) : pad[f.name] = DecodeAt(f.code, buf, 96 + f.off)
            /\ PadDataOk(pad)
            /\ Len(PadData(pad)) = 164
            /\ \A k \in 0..3 : Slice(PadData(pad), 24 * k, 24 * k + 24) = SampleData(pad.samples[k])
            /\ Slice(PadData(pad), 96, 164) = StructPack(PadFormat, AttrValues(PadFormatAttrs, pad))
  /\ (last.op = "init" /\ last.kind = "mpc1k_pad" /\ Len(buf) > 0) =>
       /\ Mpc1kPadInit(buf) = Mpc1kPadInit(Slice(buf, 0, 164))
       /\ res = "ok" =>
            /\ Len(buf) >= 164
            /\ DOMAIN pad.sample_list = 0..3
            /\ \A k \in 0..3 : pad.sample_list[k] = Mpc1kSampleInit(Slice(buf, 24 * k, 24 * k + 24)).obj
            /\ \A f \in FormatFields(PadFormat, PadFormatAttrs) : pad[f.name] = DecodeAt(f.code, buf, 96 + f.off)
            /\ Mpc1kPadDataOk(pad)
            /\ Len(Mpc1kPadData(pad)) = 164
            /\ \A k \in 0..3 : Slice(Mpc1kPadData(pad), 24 * k, 24 * k + 24) = Mpc1kSampleData(pad.sample_list[k])
            /\ Slice(Mpc1kPadData(pad), 96, 164) = StructPack(PadFormat, AttrValues(PadFormatAttrs, pad))

\* A Pad was constructed from a record followed by a whole other record; its
\* Samples have the levels 1, 2, 3, 4 of the first record
PadParseLayoutWitness ==
  /\ last.op = "init"
  /\ last.kind = "pad"
  /\ res = "ok"
  /\ Len(buf) = 2 * PadSize
  /\ \A k \in 0..3 : pad.samples[k].level = k + 1
  /\ pad.mixer_level = 100

\* The Pad records of the buffer that do not make a Pad
FailingPads(data) == {p \in Pads : PadInit(PadSlice(data, p)).status # "ok"}

\* C22: the pad -> note table follows the Pad records (at offset 24 + 64 * 164 =
\* 10520 in an image of 64 pads).  After a successful Program parse every
\* pads[i].midi_note is byte i of that table and pad_midi_notes is the table.
\* The notes are assigned after all the Pads are constructed: when a Pad record
\* does not construct, the parse ends with that Pad's error whatever the table
\* holds; when all do and the table is complete with a byte greater than 127,
\* the parse fails with ValueError.
PadNoteAssignment ==
  /\ PadsOffset + 64 * PadSize = 10520
  /\ PadMidiNoteOffset = PadsOffset + NumPads * PadSize
  /\ (last.op = "init" /\ last.kind = "program") =>
       /\ res = "ok" =>
            /\ \A i \in Pads : prog.pads[i].midi_note = buf[PadMidiNoteOffset + i + 1]
            /\ ListToSeq(ProgramPadMidiNotes(prog)) = PadNoteSection(buf)
       /\ (Len(buf) >= PadsOffset /\ FailingPads(buf) # {}) =>
            res = PadInit(PadSlice(buf, CHOOSE p \in FailingPads(buf) : \A q \in FailingPads(buf) : p <= q)).status
       /\ (FailingPads(buf) = {} /\ Len(buf) >= MidiNotePadOffset /\ \E i \in Pads : buf[PadMidiNoteOffset + i + 1] > 127) =>
            res = "ValueError"

\* The parse of an image whose table has 255 for the last pad failed with
\* ValueError, and the image is complete and otherwise the default
PadNoteRangeWitness ==
  /\ last.op = "init"
  /\ last.kind = "program"
  /\ res = "ValueError"
  /\ buf = Poke(DEFAULT_PGM_DATA, PadMidiNoteOffset + NumPads - 1, <<255>>)

\* C23: when load is called on a constructed mpc1k.Program and fails, the
\* Program has for file_size, file_type, the pad list, the pads' midi notes,
\* midi_program_change and the slider fields the values it had before the call.
\* (load assigns as it reads: what it assigned before the failure stays, so the
\* claim fails.)
FailedLoadKeepsProgram ==
  [][(last'.op = "load" /\ res' # "ok") => legacy' = legacy]_vars

\* The declared range of a slider bound of mpc1k.Program
Mpc1kInRange(self, name) == IntInRange(self[name], Mpc1kProgramAttr(name)[2], Mpc1kProgramAttr(name)[3])

\* C24: in every state of an mpc1k.Program after a successful construction
\* from any buffer (one whose pairs are stored with low > high included),
\* whatever slider-bound assignments, accepted or rejected, and loads followed,
\* each of the 10 pairs has low <= high and both bounds inside the declared
\* range.  (It holds after a failed load too: each setter keeps it.)
Mpc1kSliderPairInvariant ==
  legacy # NoObject =>
    \A pr \in SliderPairs :
      /\ legacy[pr[1]] <= legacy[pr[2]]
      /\ Mpc1kInRange(legacy, pr[1])
      /\ Mpc1kInRange(legacy, pr[2])

\* The image whose pairs are stored with low > high was loaded into a Program
\* that had been assigned slider_1_tune_high = 80: each pair now has both
\* bounds at the stored high value
Mpc1kSliderPairWitness ==
  /\ legacy # NoObject
  /\ last.op = "load"
  /\ res = "ok"
  /\ nops = 2
  /\ buf = InvertedImage
  /\ legacy.slider_1_tune_low = 0 /\ legacy.slider_1_tune_high = 0
  /\ legacy.slider_2_decay_low = 20 /\ legacy.slider_2_decay_high = 20

\* The buffer the last construction or load of the mpc1k.Program read
Mpc1kLoadedData == IF Len(buf) = 0 THEN DEFAULT_PGM_DATA ELSE buf

\* C25: after a successful load of an mpc1k.Program, in the constructor or on
\* a Program in any state reached, every slider pair that the buffer holds with
\* low <= high has exactly the buffer's two values, whatever the pair held
\* before.
Mpc1kLoadIndependent ==
  (legacy # NoObject /\ last.kind = "mpc1k" /\ last.op \in {"init", "load"} /\ res = "ok") =>
    \A pr \in SliderPairs :
      LET low == FieldValue(Mpc1kLoadedData, SliderField[pr[1]])
          high == FieldValue(Mpc1kLoadedData, SliderField[pr[2]])
      IN low <= high => (legacy[pr[1]] = low /\ legacy[pr[2]] = high)

\* The image with the pairs (60, 70) and (40, 45) was loaded as the second
\* operation after construction, into a Program that had other pairs
Mpc1kLoadIndependentWitness ==
  /\ legacy # NoObject
  /\ last.op = "load"
  /\ res = "ok"
  /\ nops = 2
  /\ buf = WideImage
  /\ legacy.slider_1_tune_low = 60 /\ legacy.slider_1_tune_high = 70
  /\ legacy.slider_2_decay_low = 40 /\ legacy.slider_2_decay_high = 45

\* C26: every assignment to a slider bound of mpc1k.Program ends, with the
\* value stored or with ValueError and never at the recursion limit; the
\* setter called for the opposite bound calls no further setter, so the calls
\* are never more than two deep.
Mpc1kSetterTerminates ==
  /\ [](call.depth <= 2 /\ res # "RuntimeError")
  /\ (call # NoCall) ~> (call = NoCall /\ res \in {"ok", "ValueError"})

\* slider_1_tune_low = 80 on the Program read from the narrow image (0, 50):
\* the setter of slider_1_tune_high is being called, one call deep in the
\* first, with 80 already stored in the low bound
Mpc1kSetterNestedWitness ==
  /\ call.depth = 2
  /\ call.name = "slider_1_tune_high"
  /\ call.val = 80
  /\ last.name = "slider_1_tune_low"
  /\ legacy.slider_1_tune_low = 80
  /\ legacy.slider_1_tune_high = 50

\* The objects a and b have the same attributes, with the same values except
\* for the attributes in names
SameExcept(a, b, names) == DOMAIN a = DOMAIN b /\ \A n \in DOMAIN a \ names : a[n] = b[n]

\* The opposite bound of a slider bound of mpc1k.Program, and nothing for another attribute
Mpc1kOpposite(name) == IF Mpc1kProgramAttr(name)[4] = "plain" THEN {} ELSE {Mpc1kProgramAttr(name)[5]}

\* C27: a successful assignment to an attribute of a Sample, a Pad or a
\* Program of Program.py changes no other attribute of that object, no
\* attribute of the objects that own it, and no other object they own; a
\* successful assignment to an attribute of an mpc1k.Program changes no other
\* attribute than, for a slider bound, the opposite bound of the same pair.
MutationFrame ==
  [][(last'.op = "set" /\ res' = "ok") =>
       CASE last'.kind = "program" ->
              /\ SameExcept(prog', prog, {last'.name})
              /\ legacy' = legacy
         [] last'.kind = "pad" ->
              /\ SameExcept(prog', prog, {"pads"})
              /\ DOMAIN prog'.pads = DOMAIN prog.pads
              /\ \A q \in DOMAIN prog.pads \ {last'.pad} : prog'.pads[q] = prog.pads[q]
              /\ SameExcept(prog'.pads[last'.pad], prog.pads[last'.pad], {last'.name})
              /\ legacy' = legacy
         [] last'.kind = "sample" ->
              /\ SameExcept(prog', prog, {"pads"})
              /\ DOMAIN prog'.pads = DOMAIN prog.pads
              /\ \A q \in DOMAIN prog.pads \ {last'.pad} : prog'.pads[q] = prog.pads[q]
              /\ SameExcept(prog'.pads[last'.pad], prog.pads[last'.pad], {"samples"})
              /\ DOMAIN prog'.pads[last'.pad].samples = DOMAIN prog.pads[last'.pad].samples
              /\ \A t \in DOMAIN prog.pads[last'.pad].samples \ {last'.sample} :
                   prog'.pads[last'.pad].samples[t] = prog.pads[last'.pad].samples[t]
              /\ SameExcept(prog'.pads[last'.pad].samples[last'.sample], prog.pads[last'.pad].samples[last'.sample], {last'.name})
              /\ legacy' = legacy
         [] last'.kind = "mpc1k" ->
              /\ SameExcept(legacy', legacy, {last'.name} \cup Mpc1kOpposite(last'.name))
              /\ prog' = prog]_vars

\* attack = 100 was assigned to the last Pad: it has 100, the first Pad has not
MutationFrameWitness ==
  /\ last.op = "set"
  /\ last.kind = "pad"
  /\ last.pad = NumPads - 1
  /\ last.name = "attack"
  /\ res = "ok"
  /\ prog.pads[NumPads - 1].attack = 100
  /\ prog.pads[0].attack # 100

\* The struct code and the bound of each validated integer field
FieldTriples == {<<f.code, f.validator.lower, f.validator.upper>> : f \in BoundedFields}

\* Every value inside a field's bound is accepted by struct.pack for the
\* field's code, and what it writes decodes to the same value
EveryInBoundValueRoundTrips ==
  \A t \in FieldTriples : \A v \in t[2]..t[3] :
    EncodableAs(t[1], v) /\ DecodeAt(t[1], EncodeAs(t[1], v), 0) = v

\* The value the object has for a field of the buffer
ObjectValue(self, f) ==
  CASE f.kind = "program" -> self[f.name]
    [] f.kind = "pad" -> self.pads[f.pad][f.name]
    [] f.kind = "sample" -> self.pads[f.pad].samples[f.sample][f.name]

\* C28: the bound of every validated integer field lies inside the range of
\* the struct code that encodes it (b, B or h), so every in-bound value is
\* encoded without overflow and decodes to itself.  In every Program reached,
\* each validated field holds a value inside its bound, every entry of
\* midi_note_pads is a pad number or 64 and every entry of pad_midi_notes is in
\* 0..127; and when the Program serializes, each field's bytes decode to the
\* value the Program holds.
EncodingWidth ==
  /\ \A f \in BoundedFields :
       /\ f.code \in {"b", "B", "h"}
       /\ CodeRangeLow(f.code) <= f.validator.lower
       /\ f.validator.upper <= CodeRangeHigh(f.code)
  /\ EveryInBoundValueRoundTrips
  /\ prog # NoObject =>
       /\ Bind(ProgramMidiNotePads(prog), LAMBDA mnpl : \A n \in DOMAIN mnpl : mnpl[n] \in Pads \cup {NoPad})
       /\ NoPad = 64 /\ Pads \subseteq 0..63
       /\ \A i \in DOMAIN ProgramPadMidiNotes(prog) : ProgramPadMidiNotes(prog)[i] \in 0..127
       /\ \A f \in BoundedFields :
            /\ f.validator.lower <= ObjectValue(prog, f)
            /\ ObjectValue(prog, f) <= f.validator.upper
       /\ ProgramDataOk(prog) =>
            Bind(ProgramData(prog), LAMBDA data : \A f \in BoundedFields : FieldValue(data, f) = ObjectValue(prog, f))

\* tuning = -3600, the least value of the widest bound, was assigned to the
\* last Sample of the last Pad: its two bytes decode to -3600
EncodingWidthWitness ==
  /\ last.op = "set"
  /\ last.kind = "sample"
  /\ last.name = "tuning"
  /\ last.val = -3600
  /\ last.pad = NumPads - 1
  /\ last.sample = 3
  /\ res = "ok"
  /\ ProgramDataOk(prog)
  /\ Word(ProgramData(prog), PadsOffset + (NumPads - 1) * PadSize + 3 * SampleSize + 20) = 65536 - 3600

\* The Sample, Pad and Program of mpc1k.py with the attribute names of the
\* classes of Sample.py, Pad.py and Program.py: name is sample_name,
\* sample_list is samples, pad_list is pads
Mpc1kSampleAsSample(s) == [n \in (DOMAIN s \ {"name"}) \cup {"sample_name"} |-> IF n = "sample_name" THEN s.name ELSE s[n]]

Mpc1kPadAsPad(p) ==
  [n \in (DOMAIN p \ {"sample_list"}) \cup {"samples"} |->
     IF n = "samples" THEN [k \in DOMAIN p.sample_list |-> Mpc1kSampleAsSample(p.sample_list[k])] ELSE p[n]]

Mpc1kAsProgram(self) ==
  [n \in (DOMAIN self \ {"pad_list"}) \cup {"pads"} |->
     IF n = "pads" THEN [k \in DOMAIN self.pad_list |-> Mpc1kPadAsPad(self.pad_list[k])] ELSE self[n]]

\* C29: for every buffer that has at least the size of an image (10756 bytes
\* with 64 pads) and holds its ten slider pairs with low <= high, the Program
\* of mpc1k.py and the Program of Program.py both fail to construct or both
\* succeed; when they succeed every corresponding attribute of the Programs,
\* their Pads (midi_note included) and Samples is equal, pad_midi_notes and
\* midi_note_pads equal the legacy lists, and both serialize to the same bytes.
BothEquivalent ==
  /\ PadsOffset + 64 * PadSize + 64 + NumNotes + CalcSize(ProgramFormat) = 10756
  /\ (last.op = "init" /\ last.kind = "both" /\ Len(buf) >= ProgramSize /\ BufferPairsOrdered) =>
       /\ (prog = NoObject) <=> (legacy = NoObject)
       /\ prog # NoObject =>
            /\ Mpc1kAsProgram(legacy) = prog
            /\ Mpc1kPadMidiNoteList(legacy) = ProgramPadMidiNotes(prog)
            /\ Mpc1kMidiNotePadList(legacy) = ProgramMidiNotePads(prog)
            /\ ProgramDataOk(prog)
            /\ Mpc1kProgramDataOk(legacy)
            /\ Mpc1kProgramData(legacy) = ProgramData(prog)

\* Both classes were constructed from the image in which pads 1 and 4 share
\* note 36: both give pad 4 for the note
BothEquivalentWitness ==
  /\ last.kind = "both"
  /\ buf = SharedNoteImage
  /\ prog # NoObject
  /\ legacy # NoObject
  /\ ProgramMidiNotePads(prog)[36] = 4
  /\ Mpc1kMidiNotePadList(legacy)[36] = 4
  /\ legacy.pad_list[0].sample_list[0].name = prog.pads[0].samples[0].sample_name

====
